---- MODULE Spec2Model ----
(***************************************************************************)
(* Model of the remote session lifecycle manager SparkApi                  *)
(* (desktop/libs/notebook/src/notebook/connectors/spark_shell.py).         *)
(*                                                                         *)
(* The remote Livy service is an environment: it issues session ids and    *)
(* answers every call in any way a service can (a session is in any state  *)
(* each time it is asked, a call can fail).  The SessionStore is the       *)
(* per-user profile data, a dictionary keyed by the session key.  Each     *)
(* request runs one SparkApi method; one step of a request is one access   *)
(* to the store or one call of the remote service, together with the       *)
(* local computation that follows it.                                      *)
(***************************************************************************)
EXTENDS Integers, Sequences, FiniteSets, TLC

(* ------------------------------ bounds -------------------------------- *)

\* number of session ids the remote service ever issues in one run
MaxSessions == 3

\* the bound of the polling loops (count < 120)
MaxPolls == 120

Users == {"u1", "u2"}
\* the user whose requests are modelled; sessions of the others exist remotely
ActingUsers == {"u1"}
Interpreters == {"i1", "i2"}
\* the interpreter of the requests of the lifecycle specification
MainInterpreter == "i1"
Procs == {"r1", "r2"}
\* the requests of the sequential specification
SeqProcs == {"r1"}

(* ------------------------------ values -------------------------------- *)

None == [isNone |-> TRUE]

\* python values: a string is a sequence of tokens, a list a sequence of values
PyStr(s) == [t |-> "str", v |-> s]
PyInt(s) == [t |-> "int", v |-> s]
PyList(l) == [t |-> "list", v |-> l]
PyDict(d) == [t |-> "dict", v |-> d]

SessionStates == {"starting", "idle", "busy", "shutting_down", "error", "dead", "killed"}

\* the log lines a status can carry
Logs == {<<>>, <<"l1", "l2">>}

\* the status codes of a RestException
RestCodes == {400, 404, 500}

(* --------------------------- configuration ---------------------------- *)

PROPERTIES ==
  << [name |-> "conf", value |-> PyList(<<>>)],
     [name |-> "jars", value |-> PyList(<<>>)],
     [name |-> "files", value |-> PyList(<<>>)],
     [name |-> "pyFiles", value |-> PyList(<<>>)],
     [name |-> "driverMemory", value |-> PyStr(<<"1G">>)],
     [name |-> "driverCores", value |-> PyInt(<<"1">>)],
     [name |-> "executorMemory", value |-> PyStr(<<"1G">>)],
     [name |-> "executorCores", value |-> PyInt(<<"1">>)],
     [name |-> "queue", value |-> PyStr(<<"default">>)],
     [name |-> "archives", value |-> PyList(<<>>)] >>

\* snippet.get('type'): the language of the snippets of an interpreter
SnippetType(interpreter) == IF interpreter = "i1" THEN "scala" ELSE "sparksql"

\* USE_DEFAULT_CONFIGURATION.get() and the properties_list of the user's
\* default configuration of the app 'spark' (None when the user has none)
USE_DEFAULT_CONFIGURATION == TRUE
DefaultConfiguration(user) ==
  IF user = "u1"
  THEN PyList(<< [name |-> "driverMemory", value |-> PyStr(<<"2G">>)] >>)
  ELSE None

SESSION_KEY(username, interpreter_name) == <<username, "-", interpreter_name>>

get_session_key(user, interpreter) == SESSION_KEY(user, interpreter)

(* -------------------------- get_livy_props ---------------------------- *)

RECURSIVE DictOf(_)
\* dict([(p['name'], p['value']) for p in entries]): later entries win
DictOf(entries) ==
  IF entries = <<>> THEN <<>>
  ELSE LET n == Len(entries)
           rest == DictOf(SubSeq(entries, 1, n - 1))
           e == entries[n]
       IN [k \in DOMAIN rest \cup {e.name} |-> IF k = e.name THEN e.value ELSE rest[k]]

\* the entries of d win over those of e
Update_DefaultsWin(d, e) ==
  [k \in DOMAIN d \cup DOMAIN e |-> IF k \in DOMAIN d THEN d[k] ELSE e[k]]

\* d.update(e)
Update(d, e) == [k \in DOMAIN d \cup DOMAIN e |-> IF k \in DOMAIN e THEN e[k] ELSE d[k]]

\* [p for p in properties if 'name' in p.keys() and 'value' in p.keys()]
WellFormed(properties) ==
  SelectSeq(properties, LAMBDA p : "name" \in DOMAIN p /\ "value" \in DOMAIN p)

RECURSIVE Split(_)
\* s.split(","): the list of the strings between the commas of s
Split(s) ==
  IF \A i \in DOMAIN s : s[i] # ","
  THEN <<PyStr(s)>>
  ELSE LET i == CHOOSE j \in DOMAIN s : s[j] = "," /\ \A k \in 1..(j - 1) : s[k] # ","
       IN <<PyStr(SubSeq(s, 1, i - 1))>> \o Split(SubSeq(s, i + 1, Len(s)))

ListKeys == {"archives", "jars", "files", "pyFiles"}

\* lines 83-90: a value of a list key that is not a list is split at commas
Coerce(props) ==
  [k \in DOMAIN props |->
     IF k \in ListKeys /\ props[k].t # "list" THEN PyList(Split(props[k].v)) ELSE props[k]]

RECURSIVE ConfDict(_)
\* {conf.get('key'): conf.get('value') for conf in l}: the dictionary as the
\* sequence of its <<key, value>> items, a repeated key keeping its place
ConfDict(l) ==
  IF l = <<>> THEN <<>>
  ELSE LET n == Len(l)
           rest == ConfDict(SubSeq(l, 1, n - 1))
       IN IF \E i \in DOMAIN rest : rest[i][1] = l[n].key
          THEN [i \in DOMAIN rest |->
                  IF rest[i][1] = l[n].key THEN <<l[n].key, l[n].value>> ELSE rest[i]]
          ELSE Append(rest, <<l[n].key, l[n].value>>)

\* the caller's properties are not merged
get_livy_props_Unmerged(lang, properties) ==
  LET coerced == Coerce(DictOf(PROPERTIES))
      withConf == [coerced EXCEPT !["conf"] = PyDict(ConfDict(coerced["conf"].v))]
  IN [k \in DOMAIN withConf \cup {"kind"} |->
        IF k = "kind"
        THEN PyStr(IF lang = "sparksql" THEN <<"sql">> ELSE <<lang>>)
        ELSE withConf[k]]

get_livy_props(lang, properties) ==
  LET defaults == DictOf(PROPERTIES)
      merged == IF properties # None
                THEN Update(defaults, DictOf(WellFormed(properties.v)))
                ELSE defaults
      coerced == Coerce(merged)
      withConf == [coerced EXCEPT !["conf"] = PyDict(ConfDict(coerced["conf"].v))]
  IN [k \in DOMAIN withConf \cup {"kind"} |->
        IF k = "kind"
        THEN PyStr(IF lang = "sparksql" THEN <<"sql">> ELSE <<lang>>)
        ELSE withConf[k]]

to_properties(props) ==
  [i \in DOMAIN PROPERTIES |->
     IF props # None /\ PROPERTIES[i].name \in DOMAIN props
     THEN [PROPERTIES[i] EXCEPT !.value = props[PROPERTIES[i].name]]
     ELSE PROPERTIES[i]]


(* ----------------------------- statements ----------------------------- *)

\* the ids the remote service gives to statements
StatementIds == {0, 1}

\* the states a statement can be reported in
StatementStates == {"waiting", "running", "available", "error", "cancelling", "cancelled"}

\* the messages of the exceptions of the remote calls, word by word
Messages ==
  { <<"Session", "'1'", "not", "found">>,
    <<"session", "not", "found">>,
    <<"Connection", "refused">>,
    <<"Session", "is", "in", "state", "busy">>,
    <<"statement", "not", "found">>,
    <<"internal", "error">> }

Lower(word) ==
  CASE word = "Session" -> "session"
    [] word = "Connection" -> "connection"
    [] OTHER -> word

\* force_unicode(str(e)).lower()
lower(message) == [i \in DOMAIN message |-> Lower(message[i])]

\* words in message
Contains(message, words) ==
  \E i \in 0..(Len(message) - Len(words)) : \A j \in DOMAIN words : message[i + j] = words[j]

\* the words that match '\d+' between quotes
QuotedNumbers == {"'1'"}

\* re.search("session ('\d+' )?not found", message)
SessionNotFound(message) ==
  \/ Contains(message, <<"session", "not", "found">>)
  \/ \E q \in QuotedNumbers : Contains(message, <<"session", q, "not", "found">>)

Exception(message) == [type |-> "Exception", message |-> message]

Raises(type) == [ret |-> None, exc |-> [type |-> type]]

Returns(value) == [ret |-> value, exc |-> None]

\* SessionExpired(e), line 203
SessionExpired(message) == [type |-> "SessionExpired", message |-> message]

\* the test of the busy session left out
SubmitOutcome_NoBusy(answer) ==
  IF answer.kind = "ok"
  THEN Returns([id |-> answer.id, has_result_set |-> TRUE, sync |-> FALSE])
  ELSE LET message == lower(answer.message)
       IN IF \/ SessionNotFound(message)
             \/ Contains(message, <<"connection", "refused">>)
          THEN [ret |-> None, exc |-> SessionExpired(answer.message)]
          ELSE [ret |-> None, exc |-> Exception(answer.message)]

\* lines 196-206: how _execute ends, given what api.submit_statement did
SubmitOutcome(answer) ==
  IF answer.kind = "ok"
  THEN Returns([id |-> answer.id, has_result_set |-> TRUE, sync |-> FALSE])
  ELSE LET message == lower(answer.message)
       IN IF \/ SessionNotFound(message)
             \/ Contains(message, <<"connection", "refused">>)
             \/ Contains(message, <<"session", "is", "in", "state", "busy">>)
          THEN [ret |-> None, exc |-> SessionExpired(answer.message)]
          ELSE [ret |-> None, exc |-> Exception(answer.message)]

\* lines 216-226 and 246-253: how a fetch_data that raised ends
FetchError(answer) ==
  IF SessionNotFound(lower(answer.message))
  THEN Raises("SessionExpired")
  ELSE [ret |-> None, exc |-> Exception(answer.message)]

(* --------------------------- _fetch_result ---------------------------- *)

TableKey == "application/vnd.livy.table.v1+json"
ImageKey == "image/png"
JsonKey == "application/json"
TextKey == "text/plain"

\* the value a payload has under a key of its data
DataValue(key) ==
  CASE key = TableKey ->
         [data |-> << <<"d1", "t1">>, <<"d2", "t2">> >>,
          headers |-> << [name |-> "h1", type |-> "string"],
                         [name |-> "h2", type |-> "int"] >>]
    [] key = JsonKey ->
         [data |-> << <<"j1", "j2">> >>,
          schema |-> [fields |-> << [name |-> "f1", type |-> "string"],
                                    [name |-> "f2", type |-> "long"] >>]]
    [] key = ImageKey -> "png"
    [] key = TextKey -> "text"

\* a payload with status ok and the given keys in its data
OkContent(keys) == [status |-> "ok", data |-> [k \in keys |-> DataValue(k)]]

\* content.get(key): None for a key the payload does not have
Get(content, key) == IF key \in DOMAIN content THEN content[key] ELSE None

\* [{'name': .., 'type': .., 'comment': ''} for field in fields]
Meta(fields) ==
  [i \in DOMAIN fields |->
     [name |-> fields[i].name, type |-> fields[i].type, comment |-> ""]]

\* lines 284-285
NotStartOver(data, start_over) == IF ~start_over THEN <<>> ELSE data

\* lines 257-291: the result of a payload with status ok (KeyError when its
\* data has none of the keys)
OkResult(data, start_over) ==
  IF TableKey \in DOMAIN data
  THEN Returns([data |-> NotStartOver(data[TableKey].data, start_over),
                images |-> <<>>,
                meta |-> Meta(data[TableKey].headers),
                type |-> "table"])
  ELSE LET images == IF ImageKey \in DOMAIN data THEN <<data[ImageKey]>> ELSE <<>>
       IN IF JsonKey \in DOMAIN data
          THEN Returns([data |-> NotStartOver(data[JsonKey].data, start_over),
                        images |-> images,
                        meta |-> Meta(data[JsonKey].schema.fields),
                        type |-> "table"])
          ELSE IF TextKey \in DOMAIN data
          THEN Returns([data |-> NotStartOver(<< <<data[TextKey]>> >>, start_over),
                        images |-> images,
                        meta |-> << [name |-> "Header", type |-> "STRING_TYPE",
                                     comment |-> ""] >>,
                        type |-> "text"])
          ELSE Raises("KeyError")

\* the traceback is used only when the payload has no error name
ErrorMessage_NameFirst(content) ==
  LET tb == Get(content, "traceback")
  IN IF tb = None \/ tb.v = <<>> \/ "ename" \in DOMAIN content
     THEN LET msg == IF "ename" \in DOMAIN content
                     THEN <<content["ename"]>> ELSE <<"unknown error">>
              evalue == Get(content, "evalue")
          IN IF evalue # None THEN msg \o <<": ", evalue.v>> ELSE msg
     ELSE tb.v

\* lines 292-304: the message of a payload with status error
ErrorMessage(content) ==
  LET tb == Get(content, "traceback")
  IN IF tb = None \/ tb.v = <<>>
     THEN LET msg == IF "ename" \in DOMAIN content
                     THEN <<content["ename"]>> ELSE <<"unknown error">>
              evalue == Get(content, "evalue")
          IN IF evalue # None THEN msg \o <<": ", evalue.v>> ELSE msg
     ELSE tb.v

\* lines 255-304: _fetch_result after a fetch_data that answered, content
\* being response['output'] (None for a statement without output)
fetch_result_of(content, start_over) ==
  IF content = None THEN Raises("TypeError")
  ELSE IF content.status = "ok" THEN OkResult(content.data, start_over)
  ELSE IF content.status = "error"
  THEN [ret |-> None, exc |-> [type |-> "QueryError", message |-> ErrorMessage(content)]]
  ELSE Returns(None)

\* the payloads of the statements of the requests
Contents ==
  { None,
    OkContent({TextKey}),
    OkContent({TableKey, TextKey}),
    [status |-> "error", ename |-> "NameError", evalue |-> PyStr("x")],
    [status |-> "error", traceback |-> PyList(<<"t1", "t2">>)],
    [status |-> "cancelled"] }

\* row[k - 1] for each row: IndexError for a row shorter than k
Column(rows, k) ==
  IF \E i \in DOMAIN rows : Len(rows[i]) < k
  THEN Raises("IndexError")
  ELSE Returns(PyList([i \in DOMAIN rows |-> rows[i][k]]))

(* ------------------------------- state -------------------------------- *)

VARIABLES
  remote,   \* the remote service: the sessions it has issued, by id
  store,    \* the SessionStore: per user, the profile data by session key
  pc,       \* per request, the statement it is at
  stack,    \* per request, the statements its pending calls return to
  req,      \* per request, the method it runs, for which user and interpreter
  cs,       \* per request, the locals of create_session
  cl,       \* per request, the locals of close_session
  sw,       \* per request, the locals of _close_unused_sessions
  hc,       \* per request, the locals of _handle_session_health_check
  ex,       \* per request, the locals of _execute
  ps,       \* per request, the locals of _check_status_and_fetch_result
  op,       \* per request, the locals of the method it runs
  out,      \* per request, the value returned or the exception raised last
  gh        \* per request, what it has observed so far (history)

vars == <<remote, store, pc, stack, req, cs, cl, sw, hc, ex, ps, op, out, gh>>

KeysOf(u) == {get_session_key(u, i) : i \in Interpreters}

\* a session as the methods pass it on: only its id is read (0 is the id
\* None); src tells where the session came from (the caller's notebook, the
\* store, or a create)
Sess(id, src) == [id |-> id, src |-> src]

NoReq == [op |-> "none", user |-> "u1", interpreter |-> "i1"]

NoCs ==
  [lang |-> "scala", properties |-> None, stored |-> None, props |-> None,
   id |-> 0, status |-> None, count |-> 0]

NoCl == [session |-> None, resp |-> None, stored |-> None]

NoSw == [ids |-> {}, stored |-> None, session |-> None]

NoHc == [session |-> None, stored |-> None]

NoEx == [session |-> None, snippet_type |-> "scala", stored |-> None]

NoPs == [session |-> None, state |-> "none", count |-> 0]

NoOp ==
  [session |-> None, stored |-> None, start_over |-> FALSE, kind |-> "none",
   round |-> 0, response |-> None]

NoOut == [ret |-> None, exc |-> None]

NoGh ==
  [obs |-> "none", log |-> <<>>, path |-> "none", had |-> FALSE, answers |-> <<>>,
   prev |-> None, expect |-> 0, okIds |-> {}, closes |-> {}, answer |-> None]

Init ==
  /\ remote = <<>>
  /\ store = [u \in Users |-> [k \in KeysOf(u) |-> None]]
  /\ pc = [p \in Procs |-> "idle"]
  /\ stack = [p \in Procs |-> <<>>]
  /\ req = [p \in Procs |-> NoReq]
  /\ cs = [p \in Procs |-> NoCs]
  /\ cl = [p \in Procs |-> NoCl]
  /\ sw = [p \in Procs |-> NoSw]
  /\ hc = [p \in Procs |-> NoHc]
  /\ ex = [p \in Procs |-> NoEx]
  /\ ps = [p \in Procs |-> NoPs]
  /\ op = [p \in Procs |-> NoOp]
  /\ out = [p \in Procs |-> NoOut]
  /\ gh = [p \in Procs |-> NoGh]

(* ------------------------- the remote service ------------------------- *)

\* the ids the service has issued; a session can have ended since, by itself
\* or by a close
Known(id) == id \in 1..Len(remote)

\* api.get_session(id): the status of the session, in whatever state it is
\* now and with whatever log, or None when the call raises (as it does for
\* a session that has ended)
GetSessionAnswers(id) ==
  {None} \cup
  (IF Known(id) THEN {[state |-> s, log |-> l] : s \in SessionStates, l \in Logs} ELSE {})

\* api.submit_statement(id, statement): the id of the statement, or the
\* message of the exception
SubmitAnswers ==
  {[kind |-> "ok", id |-> s] : s \in StatementIds}
    \cup {[kind |-> "error", message |-> m] : m \in Messages}

\* api.fetch_data(id, cell), for the callers that read response['state']
FetchStateAnswers ==
  {[kind |-> "ok", state |-> s] : s \in StatementStates}
    \cup {[kind |-> "error", message |-> m] : m \in Messages}

\* api.fetch_data(id, cell), for the caller that reads response['output']
FetchOutputAnswers ==
  {[kind |-> "ok", output |-> c] : c \in Contents}
    \cup {[kind |-> "error", message |-> m] : m \in Messages}

(* ------------------------------ the store ----------------------------- *)

\* _get_session_info_from_user: the record under the key, None when absent
get_session_info_from_user(user, interpreter) ==
  store[user][get_session_key(user, interpreter)]

\* a record already stored under the key is kept
set_session_info_KeepExisting(user, interpreter, session_info) ==
  IF store[user][get_session_key(user, interpreter)] # None
  THEN store
  ELSE [store EXCEPT ![user][get_session_key(user, interpreter)] = session_info]

\* the record with the greater id is kept
set_session_info_KeepNewest(user, interpreter, session_info) ==
  IF /\ store[user][get_session_key(user, interpreter)] # None
     /\ store[user][get_session_key(user, interpreter)].id > session_info.id
  THEN store
  ELSE [store EXCEPT ![user][get_session_key(user, interpreter)] = session_info]

\* _set_session_info_to_user
set_session_info_to_user(user, interpreter, session_info) ==
  [store EXCEPT ![user][get_session_key(user, interpreter)] = session_info]

\* every record of the user is dropped
remove_session_info_AllKeys(user, interpreter) ==
  [store EXCEPT ![user] = [k \in DOMAIN @ |-> None]]

\* _remove_session_info_from_user
remove_session_info_from_user(user, interpreter) ==
  [store EXCEPT ![user][get_session_key(user, interpreter)] = None]

(* ---------------------------- control flow ---------------------------- *)

Goto(p, label) ==
  /\ pc' = [pc EXCEPT ![p] = label]
  /\ UNCHANGED stack

\* a method is called: it starts at entry and returns to back
Call(p, entry, back) ==
  /\ pc' = [pc EXCEPT ![p] = entry]
  /\ stack' = [stack EXCEPT ![p] = <<back>> \o @]

\* the called method ends: its value or its exception is pending at its exit
Finish(p, exit, ret, exc) ==
  /\ pc' = [pc EXCEPT ![p] = exit]
  /\ out' = [out EXCEPT ![p] = [ret |-> ret, exc |-> exc]]
  /\ UNCHANGED stack

ExitLabels == {"cs_exit", "cl_exit", "sw_exit", "hc_exit", "ex_exit", "ps_exit", "op_exit"}

\* the pending value goes to the caller; the pending exception, which no
\* caller catches, ends the request
Exit(p) ==
  /\ pc[p] \in ExitLabels
  /\ IF out[p].exc # None
     THEN /\ pc' = [pc EXCEPT ![p] = "done"]
          /\ stack' = [stack EXCEPT ![p] = <<>>]
     ELSE /\ pc' = [pc EXCEPT ![p] = Head(stack[p])]
          /\ stack' = [stack EXCEPT ![p] = Tail(stack[p])]
  /\ UNCHANGED <<remote, store, req, cs, cl, sw, hc, ex, ps, op, out, gh>>

(* --------------------------- _check_session --------------------------- *)

BadStates == {"dead", "shutting_down", "error", "killed"}

\* the list of unhealthy states without its last entry
check_session_NoKilled(session_present) ==
  IF session_present # None /\ session_present.state \notin {"dead", "shutting_down", "error"}
  THEN session_present
  ELSE None

\* the test of the state without its "not"
check_session_Inverted(session_present) ==
  IF session_present # None /\ session_present.state \in BadStates
  THEN session_present
  ELSE None

\* _check_session, given what api.get_session answered (None when it raised)
check_session(session_present) ==
  IF session_present # None /\ session_present.state \notin BadStates
  THEN session_present
  ELSE None

\* the stored record used whatever its check says
StoredUsable_Unchecked(stored_session_info, session_present) ==
  stored_session_info # None

\* stored_session_info and self._check_session(stored_session_info)
StoredUsable(stored_session_info, session_present) ==
  stored_session_info # None /\ check_session(session_present) # None

\* how many answers of get_session the history keeps
AnsCap == 4

\* the history of a request after get_session(id) answered status
Observe(g, id, status, fresh) ==
  [g EXCEPT !.obs = IF status = None THEN "raised" ELSE status.state,
            !.log = IF status = None THEN <<>> ELSE status.log,
            !.answers = IF fresh /\ status # None /\ Len(@) < AnsCap
                        THEN Append(@, status.state) ELSE @,
            !.okIds = IF status # None /\ status.state \notin
                                            {"dead", "shutting_down", "error", "killed"}
                      THEN @ \cup {id} ELSE @]

\* the history of a request after a liveness check of session id
Checked(g, id, status) ==
  [g EXCEPT !.okIds = IF status # None /\ status.state \notin
                                          {"dead", "shutting_down", "error", "killed"}
                      THEN @ \cup {id} ELSE @]

(* --------------------------- create_session --------------------------- *)

\* the first get_session counted as an iteration
InitialCount_One == 0 + 1

\* line 156: count = 0
InitialCount == 0

\* the wait without its bound
StartingLoopCond_Unbounded(status, count) == status.state = "starting"

\* the condition of the session-start wait (line 158)
StartingLoopCond(status, count) == status.state = "starting" /\ count < MaxPolls

RECURSIVE JoinLines(_)
\* '\n'.join(lines)
JoinLines(lines) ==
  IF Len(lines) = 0 THEN <<>>
  ELSE IF Len(lines) = 1 THEN <<lines[1]>>
  ELSE <<lines[1], "\n">> \o JoinLines(Tail(lines))

\* the message without the log of the status
CreationError_AlwaysTimeout(status) ==
  [type |-> "QueryError", state |-> status.state, info |-> <<"timeout">>]

\* lines 164-165: the QueryError of a session that did not become idle
CreationError(status) ==
  [type |-> "QueryError",
   state |-> status.state,
   info |-> IF status.log # <<>> THEN JoinLines(status.log) ELSE <<"timeout">>]

\* lines 167-171
new_session_info(lang, id, props) ==
  [type |-> lang, id |-> id, properties |-> to_properties(props)]

\* lines 146-149: without caller properties the user's default configuration,
\* when there is one, supplies them
DefaultedProperties(user, properties) ==
  IF (properties = None \/ properties.v = <<>>) /\ USE_DEFAULT_CONFIGURATION
  THEN IF DefaultConfiguration(user) # None THEN DefaultConfiguration(user) ELSE properties
  ELSE properties

\* the status the wait keeps: the log of a status that the next iteration
\* replaces is never read
Kept(status, count) ==
  IF status.state = "starting" /\ count < MaxPolls
  THEN [status EXCEPT !.log = <<>>]
  ELSE status

\* the call create_session(lang, properties) starts inside another method
EnterCreateSession(p, lang, properties) ==
  /\ cs' = [cs EXCEPT ![p] = [NoCs EXCEPT !.lang = lang, !.properties = properties]]
  /\ gh' = [gh EXCEPT ![p] = [NoGh EXCEPT !.okIds = gh[p].okIds]]

\* the locals of a call that has ended are dropped, but for the id it was issued
Ended(frame) == [NoCs EXCEPT !.id = frame.id]

\* line 139
CS_GetStored(p) ==
  /\ pc[p] = "cs_get_stored"
  /\ LET stored_session_info == get_session_info_from_user(req[p].user, req[p].interpreter)
     IN /\ cs' = [cs EXCEPT ![p].stored = stored_session_info]
        /\ Goto(p, IF stored_session_info # None THEN "cs_check" ELSE "cs_create")
        /\ gh' = [gh EXCEPT ![p].prev =
                    IF stored_session_info # None /\ @ # None /\ @.id = stored_session_info.id
                    THEN @ ELSE None,
                              ![p].had = stored_session_info # None]
  /\ UNCHANGED <<remote, store, req, cl, sw, hc, ex, ps, op, out>>

\* lines 142-144 (the log of the answer is not read)
CS_Check(p) ==
  /\ pc[p] = "cs_check"
  /\ \E answer \in GetSessionAnswers(cs[p].stored.id) :
       LET session_present == check_session(answer)
           seen == IF answer = None THEN None ELSE [answer EXCEPT !.log = <<>>]
       IN /\ gh' = [gh EXCEPT ![p] = [Observe(gh[p], cs[p].stored.id, seen, FALSE) EXCEPT
                        !.path = IF session_present # None THEN "reuse" ELSE @,
                        !.prev = None,
                        !.expect = IF /\ gh[p].prev # None
                                      /\ answer # None
                                      /\ answer.state = gh[p].prev.state
                                   THEN gh[p].prev.id ELSE 0]]
          /\ IF session_present # None
             THEN /\ Finish(p, "cs_exit", cs[p].stored, None)
                  /\ cs' = [cs EXCEPT ![p] = Ended(@)]
             ELSE /\ Goto(p, "cs_create")
                  /\ cs' = [cs EXCEPT ![p].stored = None]
                  /\ UNCHANGED out
  /\ UNCHANGED <<remote, store, req, cl, sw, hc, ex, ps, op>>

\* lines 146-153: the remote create answers with a new id, or raises
CS_Create(p) ==
  /\ pc[p] = "cs_create"
  /\ \/ /\ Len(remote) < MaxSessions
        /\ LET properties == DefaultedProperties(req[p].user, cs[p].properties)
           IN cs' = [cs EXCEPT ![p].props = get_livy_props(cs[p].lang, properties),
                               ![p].id = Len(remote) + 1]
        /\ remote' = Append(remote, [owner |-> req[p].user])
        /\ Goto(p, "cs_first_get")
        /\ UNCHANGED out
     \/ /\ Finish(p, "cs_exit", None, [type |-> "Exception"])
        /\ cs' = [cs EXCEPT ![p] = Ended(@)]
        /\ UNCHANGED remote
  /\ UNCHANGED <<store, req, cl, sw, hc, ex, ps, op, gh>>

\* lines 155-156
CS_FirstGet(p) ==
  /\ pc[p] = "cs_first_get"
  /\ \E answer \in GetSessionAnswers(cs[p].id) :
       LET status == IF answer = None THEN None ELSE Kept(answer, InitialCount)
       IN /\ gh' = [gh EXCEPT ![p] = Observe(gh[p], cs[p].id, status, TRUE)]
          /\ IF status = None
             THEN /\ Finish(p, "cs_exit", None, [type |-> "Exception"])
                  /\ cs' = [cs EXCEPT ![p] = Ended(@)]
             ELSE /\ cs' = [cs EXCEPT ![p].status = status, ![p].count = InitialCount]
                  /\ Goto(p, "cs_loop")
                  /\ UNCHANGED out
  /\ UNCHANGED <<remote, store, req, cl, sw, hc, ex, ps, op>>

\* lines 158-161: one iteration of the wait
CS_Poll(p) ==
  /\ pc[p] = "cs_loop"
  /\ StartingLoopCond(cs[p].status, cs[p].count)
  /\ \E answer \in GetSessionAnswers(cs[p].id) :
       LET status == IF answer = None THEN None ELSE Kept(answer, cs[p].count + 1)
       IN /\ gh' = [gh EXCEPT ![p] = Observe(gh[p], cs[p].id, status, TRUE)]
          /\ IF status = None
             THEN /\ Finish(p, "cs_exit", None, [type |-> "Exception"])
                  /\ cs' = [cs EXCEPT ![p] = Ended(@)]
             ELSE /\ cs' = [cs EXCEPT ![p].status = status, ![p].count = @ + 1]
                  /\ UNCHANGED <<pc, stack, out>>
  /\ UNCHANGED <<remote, store, req, cl, sw, hc, ex, ps, op>>

\* the record is written before the state of the session is tested
CS_Finish_StoresFirst(p) ==
  /\ pc[p] = "cs_loop"
  /\ ~StartingLoopCond(cs[p].status, cs[p].count)
  /\ LET info == new_session_info(cs[p].lang, cs[p].id, cs[p].props)
     IN /\ store' = set_session_info_to_user(req[p].user, req[p].interpreter, info)
        /\ IF cs[p].status.state # "idle"
           THEN /\ Finish(p, "cs_exit", None, CreationError(cs[p].status))
                /\ UNCHANGED gh
           ELSE /\ gh' = [gh EXCEPT ![p].path = "create"]
                /\ Finish(p, "cs_exit", info, None)
  /\ cs' = [cs EXCEPT ![p] = Ended(@)]
  /\ UNCHANGED <<remote, req, cl, sw, hc, ex, ps, op>>

\* lines 163-174: the wait is over
CS_Finish(p) ==
  /\ pc[p] = "cs_loop"
  /\ ~StartingLoopCond(cs[p].status, cs[p].count)
  /\ IF cs[p].status.state # "idle"
     THEN /\ Finish(p, "cs_exit", None, CreationError(cs[p].status))
          /\ UNCHANGED <<store, gh>>
     ELSE LET info == new_session_info(cs[p].lang, cs[p].id, cs[p].props)
          IN /\ store' = set_session_info_to_user(req[p].user, req[p].interpreter, info)
             /\ gh' = [gh EXCEPT ![p].path = "create"]
             /\ Finish(p, "cs_exit", info, None)
  /\ cs' = [cs EXCEPT ![p] = Ended(@)]
  /\ UNCHANGED <<remote, req, cl, sw, hc, ex, ps, op>>

create_session(p) ==
  \/ CS_GetStored(p) \/ CS_Check(p) \/ CS_Create(p)
  \/ CS_FirstGet(p) \/ CS_Poll(p) \/ CS_Finish(p)

\* the session a caller of create_session goes on with
Created(p) == Sess(out[p].ret.id, IF gh[p].path = "reuse" THEN "store" ELSE "new")

\* the caller has taken the session: the locals of the call are dropped
Taken(p) ==
  /\ cs' = [cs EXCEPT ![p] = NoCs]
  /\ out' = [out EXCEPT ![p] = NoOut]
  /\ gh' = [gh EXCEPT ![p] = [NoGh EXCEPT !.okIds = gh[p].okIds]]

(* ---------------------------- close_session --------------------------- *)

Closed == [kind |-> "ok"]
RestException(code) == [kind |-> "RestException", code |-> code]
OtherError == [kind |-> "Exception"]

\* what api.close(id) can do: close the session when the service has issued
\* it, raise a RestException with a status code (404 for a session it does
\* not know any more), or fail in another way
CloseAnswers(id) ==
  (IF Known(id) THEN {Closed} ELSE {})
    \cup {RestException(c) : c \in RestCodes} \cup {OtherError}

\* lines 361-367: how the call ends, given what api.close did
CloseOutcome(session, resp) ==
  IF resp = Closed
  THEN [ret |-> [session |-> session.id, status |-> 0], exc |-> None]
  ELSE IF resp.kind = "RestException"
  THEN IF resp.code = 404 \/ resp.code = 500
       THEN [ret |-> None, exc |-> [type |-> "SessionExpired"]]
       ELSE [ret |-> None, exc |-> None]
  ELSE [ret |-> None, exc |-> [type |-> "Exception"]]

\* the test of the stored id left out
StoredMatches_AnyStored(session, stored_session_info) == stored_session_info # None

\* line 370
StoredMatches(session, stored_session_info) ==
  stored_session_info # None /\ session.id = stored_session_info.id

\* the id of the session is not tested: api.close is called for a null id too
CL_Close_NoIdTest(p) ==
  /\ pc[p] = "cl_close"
  /\ \E resp \in CloseAnswers(cl[p].session.id) :
       /\ cl' = [cl EXCEPT ![p].resp = resp]
       /\ gh' = [gh EXCEPT ![p].closes = @ \cup {cl[p].session.id}]
       /\ Goto(p, "cl_finally")
       /\ UNCHANGED out
  /\ UNCHANGED <<remote, store, req, cs, sw, hc, ex, ps, op>>

\* lines 358-364 and 372-373
CL_Close(p) ==
  /\ pc[p] = "cl_close"
  /\ IF cl[p].session.id = 0
     THEN /\ Finish(p, "cl_exit", [status |-> -1], None)
          /\ UNCHANGED <<cl, gh>>
     ELSE \E resp \in CloseAnswers(cl[p].session.id) :
            /\ cl' = [cl EXCEPT ![p].resp = resp]
            /\ gh' = [gh EXCEPT ![p].closes = @ \cup {cl[p].session.id}]
            /\ Goto(p, "cl_finally")
            /\ UNCHANGED out
  /\ UNCHANGED <<remote, store, req, cs, sw, hc, ex, ps, op>>

\* lines 369-370
CL_Finally(p) ==
  /\ pc[p] = "cl_finally"
  /\ LET stored_session_info == get_session_info_from_user(req[p].user, req[p].interpreter)
         o == CloseOutcome(cl[p].session, cl[p].resp)
     IN /\ cl' = [cl EXCEPT ![p].stored = stored_session_info]
        /\ IF StoredMatches(cl[p].session, stored_session_info)
           THEN /\ Goto(p, "cl_remove")
                /\ UNCHANGED out
           ELSE Finish(p, "cl_exit", o.ret, o.exc)
  /\ UNCHANGED <<remote, store, req, cs, sw, hc, ex, ps, op, gh>>

\* line 371
CL_Remove(p) ==
  /\ pc[p] = "cl_remove"
  /\ store' = remove_session_info_from_user(req[p].user, req[p].interpreter)
  /\ LET o == CloseOutcome(cl[p].session, cl[p].resp)
     IN Finish(p, "cl_exit", o.ret, o.exc)
  /\ UNCHANGED <<remote, req, cs, cl, sw, hc, ex, ps, op, gh>>

close_session(p) == CL_Close(p) \/ CL_Finally(p) \/ CL_Remove(p)

(* -------------------- _handle_session_health_check -------------------- *)

PopupException == [type |-> "PopupException"]

\* "not session": without a session the methods go to the store at once
HcEntry(session) == IF session = None THEN "hc_get_stored" ELSE "hc_check"

\* line 341: the check of the session of the caller
HC_Check(p) ==
  /\ pc[p] = "hc_check"
  /\ \E answer \in GetSessionAnswers(hc[p].session.id) :
       /\ gh' = [gh EXCEPT ![p] = Checked(@, hc[p].session.id, answer)]
       /\ IF check_session(answer) # None
          THEN /\ Finish(p, "hc_exit", hc[p].session, None)
               /\ hc' = [hc EXCEPT ![p] = NoHc]
          ELSE /\ Goto(p, "hc_get_stored")
               /\ UNCHANGED <<hc, out>>
  /\ UNCHANGED <<remote, store, req, cs, cl, sw, ex, ps, op>>

\* line 342
HC_GetStored(p) ==
  /\ pc[p] = "hc_get_stored"
  /\ LET stored_session_info == get_session_info_from_user(req[p].user, req[p].interpreter)
     IN IF stored_session_info = None
        THEN /\ Finish(p, "hc_exit", None, PopupException)
             /\ hc' = [hc EXCEPT ![p] = NoHc]
        ELSE /\ Goto(p, "hc_check_stored")
             /\ hc' = [hc EXCEPT ![p].stored = stored_session_info]
             /\ UNCHANGED out
  /\ UNCHANGED <<remote, store, req, cs, cl, sw, ex, ps, op, gh>>

\* lines 343-348
HC_CheckStored(p) ==
  /\ pc[p] = "hc_check_stored"
  /\ \E answer \in GetSessionAnswers(hc[p].stored.id) :
       /\ gh' = [gh EXCEPT ![p] = Checked(@, hc[p].stored.id, answer)]
       /\ IF StoredUsable(hc[p].stored, answer)
          THEN Finish(p, "hc_exit", Sess(hc[p].stored.id, "store"), None)
          ELSE Finish(p, "hc_exit", None, PopupException)
  /\ hc' = [hc EXCEPT ![p] = NoHc]
  /\ UNCHANGED <<remote, store, req, cs, cl, sw, ex, ps, op>>

handle_session_health_check(p) == HC_Check(p) \/ HC_GetStored(p) \/ HC_CheckStored(p)

(* ------------------------------ _execute ------------------------------ *)

ExEntry(session) == IF session = None THEN "ex_get_stored" ELSE "ex_check"

\* line 191: session = self.create_session(snippet_type)
EX_CallCreate(p) ==
  /\ EnterCreateSession(p, ex[p].snippet_type, None)
  /\ Call(p, "cs_get_stored", "ex_created")

\* line 187: the check of the session of the caller
EX_Check(p) ==
  /\ pc[p] = "ex_check"
  /\ \E answer \in GetSessionAnswers(ex[p].session.id) :
       /\ gh' = [gh EXCEPT ![p] = Checked(@, ex[p].session.id, answer)]
       /\ Goto(p, IF check_session(answer) # None THEN "ex_submit" ELSE "ex_get_stored")
  /\ UNCHANGED <<remote, store, req, cs, cl, sw, hc, ex, ps, op, out>>

\* line 188
EX_GetStored(p) ==
  /\ pc[p] = "ex_get_stored"
  /\ LET stored_session_info == get_session_info_from_user(req[p].user, req[p].interpreter)
     IN IF stored_session_info = None
        THEN /\ EX_CallCreate(p)
             /\ ex' = [ex EXCEPT ![p].session = None]
        ELSE /\ Goto(p, "ex_check_stored")
             /\ ex' = [ex EXCEPT ![p].session = None, ![p].stored = stored_session_info]
             /\ UNCHANGED <<cs, gh>>
  /\ UNCHANGED <<remote, store, req, cl, sw, hc, ps, op, out>>

\* lines 189-191
EX_CheckStored(p) ==
  /\ pc[p] = "ex_check_stored"
  /\ \E answer \in GetSessionAnswers(ex[p].stored.id) :
       IF StoredUsable(ex[p].stored, answer)
       THEN /\ gh' = [gh EXCEPT ![p] = Checked(@, ex[p].stored.id, answer)]
            /\ ex' = [ex EXCEPT ![p].session = Sess(ex[p].stored.id, "store"),
                                ![p].stored = None]
            /\ Goto(p, "ex_submit")
            /\ UNCHANGED cs
       ELSE /\ EX_CallCreate(p)
            /\ ex' = [ex EXCEPT ![p].stored = None]
  /\ UNCHANGED <<remote, store, req, cl, sw, hc, ps, op, out>>

\* line 191: create_session has returned
EX_Created(p) ==
  /\ pc[p] = "ex_created"
  /\ ex' = [ex EXCEPT ![p].session = Created(p)]
  /\ Goto(p, "ex_submit")
  /\ Taken(p)
  /\ UNCHANGED <<remote, store, req, cl, sw, hc, ps, op>>

\* lines 193-206
EX_Submit(p) ==
  /\ pc[p] = "ex_submit"
  /\ \E answer \in SubmitAnswers :
       LET o == SubmitOutcome(answer)
       IN Finish(p, "ex_exit", o.ret, o.exc)
  /\ ex' = [ex EXCEPT ![p] = NoEx]
  /\ UNCHANGED <<remote, store, req, cs, cl, sw, hc, ps, op, gh>>

execute(p) ==
  \/ EX_Check(p) \/ EX_GetStored(p) \/ EX_CheckStored(p) \/ EX_Created(p) \/ EX_Submit(p)

(* ------------------- _check_status_and_fetch_result ------------------- *)

\* the bound of the count left out
StatementLoopCond_Unbounded(state, count) == state \in {"running", "waiting"}

\* the test of the state left out
StatementLoopCond_AnyState(state, count) == count < MaxPolls

\* line 445
StatementLoopCond(state, count) == state \in {"running", "waiting"} /\ count < MaxPolls

\* lines 442-444
PS_First(p) ==
  /\ pc[p] = "ps_first"
  /\ \E answer \in FetchStateAnswers :
       IF answer.kind = "error"
       THEN /\ Finish(p, "ps_exit", None, Exception(answer.message))
            /\ ps' = [ps EXCEPT ![p] = NoPs]
       ELSE /\ ps' = [ps EXCEPT ![p].state = answer.state, ![p].count = 0]
            /\ Goto(p, "ps_loop")
            /\ UNCHANGED out
  /\ UNCHANGED <<remote, store, req, cs, cl, sw, hc, ex, op, gh>>

\* lines 445-448: one iteration of the wait
PS_Poll(p) ==
  /\ pc[p] = "ps_loop"
  /\ StatementLoopCond(ps[p].state, ps[p].count)
  /\ \E answer \in FetchStateAnswers :
       IF answer.kind = "error"
       THEN /\ Finish(p, "ps_exit", None, Exception(answer.message))
            /\ ps' = [ps EXCEPT ![p] = NoPs]
       ELSE /\ ps' = [ps EXCEPT ![p].state = answer.state, ![p].count = @ + 1]
            /\ UNCHANGED <<pc, stack, out>>
  /\ UNCHANGED <<remote, store, req, cs, cl, sw, hc, ex, op, gh>>

\* line 450: the wait is over; without a result to fetch the method ends
\* (of its locals the last state reported is kept)
PS_Done(p) ==
  /\ pc[p] = "ps_loop"
  /\ ~StatementLoopCond(ps[p].state, ps[p].count)
  /\ IF ps[p].state = "available"
     THEN /\ Goto(p, "ps_fetch")
          /\ UNCHANGED <<ps, out>>
     ELSE /\ Finish(p, "ps_exit", None, None)
          /\ ps' = [ps EXCEPT ![p] = [NoPs EXCEPT !.state = ps[p].state]]
  /\ UNCHANGED <<remote, store, req, cs, cl, sw, hc, ex, op, gh>>

\* line 451: self._fetch_result(api, session, execute_resp['id'], start_over=True)
PS_Fetch(p) ==
  /\ pc[p] = "ps_fetch"
  /\ \E answer \in FetchOutputAnswers :
       LET o == IF answer.kind = "error" THEN FetchError(answer)
                ELSE fetch_result_of(answer.output, TRUE)
       IN Finish(p, "ps_exit", o.ret, o.exc)
  /\ ps' = [ps EXCEPT ![p] = NoPs]
  /\ UNCHANGED <<remote, store, req, cs, cl, sw, hc, ex, op, gh>>

check_status_and_fetch_result(p) == PS_First(p) \/ PS_Poll(p) \/ PS_Done(p) \/ PS_Fetch(p)

(* ----------------------- _close_unused_sessions ----------------------- *)

\* idle left out
ReapedStates_NoIdle == {"shutting_down", "error", "dead", "killed"}

\* line 437
ReapedStates == {"idle", "shutting_down", "error", "dead", "killed"}

\* the test of the owner left out
Unused_AnyOwner(session, stored_session_info, username) ==
  /\ session.id # stored_session_info.id
  /\ session.state \in ReapedStates

\* lines 436-437
Unused(session, stored_session_info, username) ==
  /\ session.owner = username
  /\ session.id # stored_session_info.id
  /\ session.state \in ReapedStates

\* the first session of the listing that the loop has not reached
First(ids) == CHOOSE i \in ids : \A j \in ids : i <= j

\* lines 424-433: api.get_sessions() lists the sessions the service still
\* knows, or raises (or answers nothing), and then the sweep is over
SW_List(p) ==
  /\ pc[p] = "sw_list"
  /\ \/ /\ \E ids \in SUBSET (1..Len(remote)) :
             sw' = [sw EXCEPT ![p] = [NoSw EXCEPT !.ids = ids]]
        /\ Goto(p, "sw_get_stored")
        /\ UNCHANGED out
     \/ /\ Finish(p, "sw_exit", None, None)
        /\ sw' = [sw EXCEPT ![p] = NoSw]
  /\ UNCHANGED <<remote, store, req, cs, cl, hc, ex, ps, op, gh>>

\* line 434
SW_GetStored(p) ==
  /\ pc[p] = "sw_get_stored"
  /\ sw' = [sw EXCEPT ![p].stored = get_session_info_from_user(req[p].user, req[p].interpreter)]
  /\ Goto(p, "sw_loop")
  /\ UNCHANGED <<remote, store, req, cs, cl, hc, ex, ps, op, out, gh>>

\* lines 435-438: the loop takes the next session of the listing, in the
\* state the listing gave it; the session is closed when the test holds
SW_Next(p) ==
  /\ pc[p] = "sw_loop"
  /\ IF sw[p].ids = {}
     THEN /\ Finish(p, "sw_exit", None, None)
          /\ UNCHANGED <<sw, cl>>
     ELSE \E state \in SessionStates :
            LET session == [id |-> First(sw[p].ids),
                            owner |-> remote[First(sw[p].ids)].owner,
                            state |-> state]
            IN /\ sw' = [sw EXCEPT ![p].ids = @ \ {session.id}, ![p].session = session]
               /\ IF session.owner = req[p].user /\ sw[p].stored = None
                  THEN /\ Finish(p, "sw_exit", None, [type |-> "TypeError"])
                       /\ UNCHANGED cl
                  ELSE IF Unused(session, sw[p].stored, req[p].user)
                  THEN /\ cl' = [cl EXCEPT ![p] = [NoCl EXCEPT !.session = session]]
                       /\ Call(p, "cl_close", "sw_loop")
                       /\ UNCHANGED out
                  ELSE UNCHANGED <<pc, stack, out, cl>>
  /\ UNCHANGED <<remote, store, req, cs, hc, ex, ps, op, gh>>

close_unused_sessions(p) == SW_List(p) \/ SW_GetStored(p) \/ SW_Next(p)

(* ------------------ check_status, cancel and get_log ------------------ *)

\* lines 216-226: the session is the one the health check returned
ST_Fetch(p) ==
  /\ pc[p] = "st_fetch"
  /\ \E answer \in FetchStateAnswers :
       LET o == IF answer.kind = "error" THEN FetchError(answer)
                ELSE Returns([status |-> answer.state])
       IN Finish(p, "op_exit", o.ret, o.exc)
  /\ UNCHANGED <<remote, store, req, cs, cl, sw, hc, ex, ps, op, gh>>

\* what api.cancel(id) can do: answer, raise a RestException or fail in
\* another way
CancelAnswers ==
  {[kind |-> "ok"]} \cup {RestException(c) : c \in RestCodes} \cup {OtherError}

\* a failure of the call is raised again
CancelOutcome_Raised(answer) ==
  IF answer.kind = "ok" THEN Returns([status |-> 0]) ELSE Raises(answer.kind)

\* lines 315-321: every exception is caught and logged
CancelOutcome(answer) == Returns([status |-> 0])

CA_Cancel(p) ==
  /\ pc[p] = "ca_cancel"
  /\ \E answer \in CancelAnswers :
       /\ Finish(p, "op_exit", CancelOutcome(answer).ret, CancelOutcome(answer).exc)
       /\ gh' = [gh EXCEPT ![p].answer = answer]
  /\ UNCHANGED <<remote, store, req, cs, cl, sw, hc, ex, ps, op>>

\* what api.get_log can do
LogAnswers ==
  {[kind |-> "ok", log |-> l] : l \in Logs}
    \cup {RestException(c) : c \in RestCodes} \cup {OtherError}

\* a RestException is raised again
LogOutcome_Raised(answer) ==
  IF answer.kind = "ok" THEN Returns(PyList(answer.log)) ELSE Raises("Exception")

\* lines 325-336
LogOutcome(answer) ==
  IF answer.kind = "ok" THEN Returns(PyList(answer.log))
  ELSE IF answer.kind = "RestException" THEN Returns([status |-> 0])
  ELSE Raises("Exception")

GL_Log(p) ==
  /\ pc[p] = "gl_log"
  /\ \E answer \in LogAnswers :
       /\ Finish(p, "op_exit", LogOutcome(answer).ret, LogOutcome(answer).exc)
       /\ gh' = [gh EXCEPT ![p].answer = answer]
  /\ UNCHANGED <<remote, store, req, cs, cl, sw, hc, ex, ps, op>>

(* ---------------------------- fetch_result ---------------------------- *)

\* line 236: self._fetch_result(api, session, cell, start_over)
FR_Fetch(p) ==
  /\ pc[p] = "fr_fetch"
  /\ \E answer \in FetchOutputAnswers :
       LET o == IF answer.kind = "error" THEN FetchError(answer)
                ELSE fetch_result_of(answer.output, op[p].start_over)
       IN IF o.exc # None
          THEN /\ Finish(p, "op_exit", None, o.exc)
               /\ UNCHANGED op
          ELSE /\ op' = [op EXCEPT ![p].response = o.ret]
               /\ out' = [out EXCEPT ![p] = NoOut]
               /\ Goto(p, "fr_read_store")
  /\ UNCHANGED <<remote, store, req, cs, cl, sw, hc, ex, ps, gh>>

\* lines 240-241
FR_ReadStore(p) ==
  /\ pc[p] = "fr_read_store"
  /\ IF get_session_info_from_user(req[p].user, req[p].interpreter) # None
     THEN Call(p, "sw_list", "fr_return")
     ELSE Goto(p, "fr_return")
  /\ UNCHANGED <<remote, store, req, cs, cl, sw, hc, ex, ps, op, out, gh>>

\* line 243
FR_Return(p) ==
  /\ pc[p] = "fr_return"
  /\ Finish(p, "op_exit", op[p].response, None)
  /\ UNCHANGED <<remote, store, req, cs, cl, sw, hc, ex, ps, op, gh>>

fetch_result(p) == FR_Fetch(p) \/ FR_ReadStore(p) \/ FR_Return(p)

(* ------------------ autocomplete and get_sample_data ------------------ *)

\* how many statements the method runs: autocomplete lists the databases, the
\* tables of a database or the columns of a table, or nothing
Statements(kind) ==
  CASE kind = "databases" -> 1
    [] kind = "tables" -> 2
    [] kind = "columns" -> 2
    [] kind = "sample" -> 1
    [] OTHER -> 0

\* what the method makes of the result of its statement number round (None
\* for a statement that did not become available)
Digest(kind, round, result, response) ==
  IF round < Statements(kind) THEN Returns(response)
  ELSE IF kind = "databases"
  THEN IF result = None THEN Returns([databases |-> None])
       ELSE LET c == Column(result.data, 1)
            IN IF c.exc # None THEN c ELSE Returns([databases |-> c.ret])
  ELSE IF kind = "tables"
  THEN IF result = None THEN Returns([tables_meta |-> None])
       ELSE LET c == Column(result.data, 2)
            IN IF c.exc # None THEN c ELSE Returns([tables_meta |-> c.ret])
  ELSE IF kind = "columns"
  THEN IF result = None THEN Raises("TypeError")
       ELSE LET n == Column(result.data, 1)
                t == Column(result.data, 2)
            IN IF t.exc # None THEN t
               ELSE Returns([columns |-> n.ret,
                             extended_columns |->
                               PyList([i \in DOMAIN n.ret.v |->
                                         [comment |-> None, name |-> n.ret.v[i],
                                          type |-> t.ret.v[i]]])])
  ELSE IF result = None THEN Raises("TypeError")
       ELSE Returns([status |-> 0, result |-> PyDict(<<>>), rows |-> result.data,
                     full_headers |-> result.meta])

\* self.create_session(snippet.get('type'))
RS_CallCreate(p) ==
  /\ EnterCreateSession(p, SnippetType(req[p].interpreter), None)
  /\ Call(p, "cs_get_stored", "rs_created")

\* lines 393-394 and 493-494
RS_ReadStore(p) ==
  /\ pc[p] = "rs_read_store"
  /\ IF get_session_info_from_user(req[p].user, req[p].interpreter) # None
     THEN Call(p, "sw_list", "rs_get_stored")
     ELSE Goto(p, "rs_get_stored")
  /\ UNCHANGED <<remote, store, req, cs, cl, sw, hc, ex, ps, op, out, gh>>

\* lines 396 and 496
RS_GetStored(p) ==
  /\ pc[p] = "rs_get_stored"
  /\ LET stored_session_info == get_session_info_from_user(req[p].user, req[p].interpreter)
     IN IF stored_session_info = None
        THEN /\ RS_CallCreate(p)
             /\ UNCHANGED op
        ELSE /\ Goto(p, "rs_check_stored")
             /\ op' = [op EXCEPT ![p].stored = stored_session_info]
             /\ gh' = [gh EXCEPT ![p] = NoGh]
             /\ UNCHANGED cs
  /\ sw' = [sw EXCEPT ![p] = NoSw]
  /\ cl' = [cl EXCEPT ![p] = NoCl]
  /\ out' = [out EXCEPT ![p] = NoOut]
  /\ UNCHANGED <<remote, store, req, hc, ex, ps>>

\* lines 397-400 and 497-500
RS_CheckStored(p) ==
  /\ pc[p] = "rs_check_stored"
  /\ \E answer \in GetSessionAnswers(op[p].stored.id) :
       IF StoredUsable(op[p].stored, answer)
       THEN /\ gh' = [gh EXCEPT ![p] = Checked(@, op[p].stored.id, answer)]
            /\ op' = [op EXCEPT ![p].session = Sess(op[p].stored.id, "store"),
                                ![p].stored = None]
            /\ Goto(p, "op_run")
            /\ UNCHANGED cs
       ELSE /\ RS_CallCreate(p)
            /\ op' = [op EXCEPT ![p].stored = None]
  /\ UNCHANGED <<remote, store, req, cl, sw, hc, ex, ps, out>>

\* lines 400 and 500: create_session has returned
RS_Created(p) ==
  /\ pc[p] = "rs_created"
  /\ op' = [op EXCEPT ![p].session = Created(p)]
  /\ Goto(p, "op_run")
  /\ Taken(p)
  /\ UNCHANGED <<remote, store, req, cl, sw, hc, ex, ps>>

\* lines 402-417 and 504-514: the next statement is executed, or the method
\* returns its response
OP_Run(p) ==
  /\ pc[p] = "op_run"
  /\ IF op[p].round < Statements(op[p].kind)
     THEN /\ ex' = [ex EXCEPT ![p] = [NoEx EXCEPT
                      !.session = op[p].session,
                      !.snippet_type = SnippetType(req[p].interpreter)]]
          /\ Call(p, ExEntry(op[p].session), "op_executed")
          /\ UNCHANGED out
     ELSE /\ Finish(p, "op_exit", op[p].response, None)
          /\ UNCHANGED ex
  /\ UNCHANGED <<remote, store, req, cs, cl, sw, hc, ps, op, gh>>

\* lines 455, 463, 466, 474, 477 and 505: the statement is polled
OP_Executed(p) ==
  /\ pc[p] = "op_executed"
  /\ ps' = [ps EXCEPT ![p] = [NoPs EXCEPT !.session = op[p].session]]
  /\ Call(p, "ps_first", "op_polled")
  /\ out' = [out EXCEPT ![p] = NoOut]
  /\ UNCHANGED <<remote, store, req, cs, cl, sw, hc, ex, op, gh>>

\* the result of the statement is read
OP_Polled(p) ==
  /\ pc[p] = "op_polled"
  /\ LET o == Digest(op[p].kind, op[p].round + 1, out[p].ret, op[p].response)
     IN IF o.exc # None
        THEN /\ Finish(p, "op_exit", None, o.exc)
             /\ UNCHANGED op
        ELSE /\ op' = [op EXCEPT ![p].round = @ + 1, ![p].response = o.ret]
             /\ out' = [out EXCEPT ![p] = NoOut]
             /\ Goto(p, "op_run")
  /\ ps' = [ps EXCEPT ![p] = NoPs]
  /\ UNCHANGED <<remote, store, req, cs, cl, sw, hc, ex, gh>>

resolve_and_run(p) ==
  \/ RS_ReadStore(p) \/ RS_GetStored(p) \/ RS_CheckStored(p) \/ RS_Created(p)
  \/ OP_Run(p) \/ OP_Executed(p) \/ OP_Polled(p)

(* ------------------------------ requests ------------------------------ *)

\* the sessions a notebook passes to close_session
SessionArgs == {Sess(id, "arg") : id \in 0..MaxSessions}

\* the session of the snippet: none, or one with an id
SnippetSessions == {None} \cup {Sess(id, "arg") : id \in 1..MaxSessions}

NoFrames == [cs |-> NoCs, cl |-> NoCl, hc |-> NoHc, ex |-> NoEx, op |-> NoOp, gh |-> NoGh]

\* a request starts a method: the frames of the request before are dropped
Start(p, r, entry, backs, f) ==
  /\ pc[p] \in {"idle", "done"}
  /\ req' = [req EXCEPT ![p] = r]
  /\ pc' = [pc EXCEPT ![p] = entry]
  /\ stack' = [stack EXCEPT ![p] = backs \o <<"done">>]
  /\ cs' = [cs EXCEPT ![p] = f.cs]
  /\ cl' = [cl EXCEPT ![p] = f.cl]
  /\ hc' = [hc EXCEPT ![p] = f.hc]
  /\ ex' = [ex EXCEPT ![p] = f.ex]
  /\ op' = [op EXCEPT ![p] = f.op]
  /\ gh' = [gh EXCEPT ![p] = f.gh]
  /\ sw' = [sw EXCEPT ![p] = NoSw]
  /\ ps' = [ps EXCEPT ![p] = NoPs]
  /\ out' = [out EXCEPT ![p] = NoOut]
  /\ UNCHANGED <<remote, store>>

Request(o, user, interpreter) == [op |-> o, user |-> user, interpreter |-> interpreter]

\* create_session(lang, properties) is called
StartCreateSession(p, interpreters) ==
  \E user \in ActingUsers, interpreter \in interpreters :
    Start(p, Request("create_session", user, interpreter), "cs_get_stored", <<>>,
          [NoFrames EXCEPT
             !.cs = [NoCs EXCEPT !.lang = SnippetType(interpreter)],
             !.gh = [NoGh EXCEPT !.prev =
                       IF /\ req[p] = Request("create_session", user, interpreter)
                          /\ pc[p] = "done"
                          /\ out[p].exc = None
                       THEN [id |-> out[p].ret.id, state |-> gh[p].obs]
                       ELSE None]])

\* close_session(session) is called
StartCloseSession(p, interpreters) ==
  \E user \in ActingUsers, interpreter \in interpreters, session \in SessionArgs :
    Start(p, Request("close_session", user, interpreter), "cl_close", <<>>,
          [NoFrames EXCEPT !.cl = [NoCl EXCEPT !.session = session]])

\* execute(notebook, snippet) is called
StartExecute(p, interpreters) ==
  \E user \in ActingUsers, interpreter \in interpreters, session \in SnippetSessions :
    Start(p, Request("execute", user, interpreter), ExEntry(session), <<>>,
          [NoFrames EXCEPT !.ex = [NoEx EXCEPT !.session = session,
                                               !.snippet_type = SnippetType(interpreter)]])

\* check_status, cancel or get_log is called: each starts with the health
\* check of the session of the snippet
StartChecked(p, interpreters) ==
  \E user \in ActingUsers, interpreter \in interpreters, session \in SnippetSessions :
    \E m \in { <<"check_status", "st_fetch">>, <<"cancel", "ca_cancel">>,
               <<"get_log", "gl_log">> } :
      Start(p, Request(m[1], user, interpreter), HcEntry(session), <<m[2]>>,
            [NoFrames EXCEPT !.hc = [NoHc EXCEPT !.session = session]])

\* fetch_result(notebook, snippet, rows, start_over) is called
StartFetchResult(p, interpreters) ==
  \E user \in ActingUsers, interpreter \in interpreters, session \in SnippetSessions :
    \E start_over \in BOOLEAN :
      Start(p, Request("fetch_result", user, interpreter), HcEntry(session), <<"fr_fetch">>,
            [NoFrames EXCEPT !.hc = [NoHc EXCEPT !.session = session],
                             !.op = [NoOp EXCEPT !.start_over = start_over]])

\* autocomplete(snippet, database, table, column) is called
StartAutocomplete(p, interpreters) ==
  \E user \in ActingUsers, interpreter \in interpreters :
    \E kind \in {"databases", "tables", "columns", "nothing"} :
      Start(p, Request("autocomplete", user, interpreter), "rs_read_store", <<>>,
            [NoFrames EXCEPT !.op = [NoOp EXCEPT !.kind = kind, !.response = PyDict(<<>>)]])

\* get_sample_data(snippet, database, table, column) is called
StartGetSampleData(p, interpreters) ==
  \E user \in ActingUsers, interpreter \in interpreters :
    Start(p, Request("get_sample_data", user, interpreter), "rs_read_store", <<>>,
          [NoFrames EXCEPT !.op = [NoOp EXCEPT !.kind = "sample"]])

(* --------------------------- the environment -------------------------- *)

\* between the requests, another user creates a session on the service
ForeignCreate ==
  /\ Len(remote) < MaxSessions
  /\ \A p \in Procs : pc[p] \in {"idle", "done"}
  /\ \E u \in Users \ ActingUsers :
       remote' = Append(remote, [owner |-> u])
  /\ UNCHANGED <<store, pc, stack, req, cs, cl, sw, hc, ex, ps, op, out, gh>>

(* --------------------------- specifications --------------------------- *)

\* the lifecycle of the sessions of one (user, interpreter) pair: one
\* request at a time creates or closes
Next ==
  \E p \in SeqProcs :
    \/ StartCreateSession(p, {MainInterpreter})
    \/ StartCloseSession(p, {MainInterpreter})
    \/ create_session(p)
    \/ close_session(p)
    \/ Exit(p)

Spec == Init /\ [][Next]_vars

\* all the methods of the connector, one request at a time, on a service
\* that other users use too
NextOps ==
  \/ \E p \in SeqProcs :
       \/ StartCreateSession(p, {MainInterpreter})
       \/ StartCloseSession(p, {MainInterpreter})
       \/ StartExecute(p, {MainInterpreter})
       \/ StartChecked(p, {MainInterpreter})
       \/ StartFetchResult(p, {MainInterpreter})
       \/ StartAutocomplete(p, {MainInterpreter})
       \/ StartGetSampleData(p, {MainInterpreter})
       \/ create_session(p)
       \/ close_session(p)
       \/ handle_session_health_check(p)
       \/ execute(p)
       \/ check_status_and_fetch_result(p)
       \/ close_unused_sessions(p)
       \/ ST_Fetch(p) \/ CA_Cancel(p) \/ GL_Log(p)
       \/ fetch_result(p)
       \/ resolve_and_run(p)
       \/ Exit(p)

SpecOps == Init /\ [][NextOps]_vars

\* the reap sweep at the end of fetch_result, against sessions that the
\* user and other users have created
NextReap ==
  \/ ForeignCreate
  \/ \E p \in SeqProcs :
       \/ StartCreateSession(p, {MainInterpreter})
       \/ StartCloseSession(p, {MainInterpreter})
       \/ StartFetchResult(p, {MainInterpreter})
       \/ create_session(p)
       \/ close_session(p)
       \/ handle_session_health_check(p)
       \/ fetch_result(p)
       \/ close_unused_sessions(p)
       \/ Exit(p)

SpecReap == Init /\ [][NextReap]_vars

(* ------------------------ create_session: claims ---------------------- *)

Returned(p) == pc[p] = "cs_exit" /\ out[p].exc = None

\* C1: create_session never returns a session whose most recently observed
\* remote state (the last get_session answer seen in that call) is dead,
\* shutting_down, error or killed: a return on the reuse path follows an
\* answer outside that set, a return on the create path follows idle.
C1_NeverReturnsUnhealthy ==
  \A p \in Procs :
    Returned(p) =>
      /\ gh[p].obs \in SessionStates \ {"dead", "shutting_down", "error", "killed"}
      /\ gh[p].path \in {"reuse", "create"}
      /\ gh[p].path = "create" => gh[p].obs = "idle"

C1_Witness ==
  \E p \in Procs : Returned(p) /\ gh[p].path = "reuse" /\ gh[p].obs = "busy"

(* -------------------- the stored record: claims ----------------------- *)

\* the statements that call submit_statement, fetch_data, cancel or get_log
CallSites ==
  {"ex_submit", "st_fetch", "fr_fetch", "ca_cancel", "gl_log",
   "ps_first", "ps_loop", "ps_fetch"}

\* the session the remote call of the statement at pc[p] is made for
Target(p) ==
  IF pc[p] = "ex_submit" THEN ex[p].session
  ELSE IF pc[p] \in {"ps_first", "ps_loop", "ps_fetch"} THEN ps[p].session
  ELSE out[p].ret

\* C2: in every operation, a record read from the SessionStore is the target
\* of a remote submit, fetch, cancel or log call, or is returned by
\* create_session, only after a get_session call of that same operation has
\* reported its session in a state outside dead, shutting_down, error and
\* killed.
C2_StoredNeverTrusted ==
  \A p \in Procs :
    /\ (pc[p] \in CallSites /\ Target(p).src = "store") =>
         Target(p).id \in gh[p].okIds
    /\ (Returned(p) /\ gh[p].path = "reuse") =>
         /\ out[p].ret = store[req[p].user][<<req[p].user, "-", req[p].interpreter>>]
         /\ out[p].ret.id \in gh[p].okIds

C2_Witness ==
  \E p \in Procs :
    /\ req[p].op = "get_sample_data"
    /\ pc[p] = "ps_fetch"
    /\ ps[p].session.src = "store"
    /\ ps[p].session.id \in gh[p].okIds

\* C3: two consecutive successful calls of create_session for the same key,
\* the second finding the remote session in the state the first last saw and
\* the store as the first left it, return the same session id.
C3_Idempotent ==
  \A p \in Procs :
    (Returned(p) /\ gh[p].expect # 0) => out[p].ret.id = gh[p].expect

C3_Witness ==
  \E p \in Procs : Returned(p) /\ gh[p].expect # 0 /\ out[p].ret.id = gh[p].expect

\* C4: a create_session that created a session and saw it idle has written
\* the record {type, id, properties} under the session key, in place of any
\* record stored there before, and returns that record, whose id is the id
\* the remote create issued.
C4_PersistsAndReturns ==
  \A p \in Procs :
    (Returned(p) /\ gh[p].path = "create") =>
      /\ store[req[p].user][<<req[p].user, "-", req[p].interpreter>>] = out[p].ret
      /\ DOMAIN out[p].ret = {"type", "id", "properties"}
      /\ out[p].ret.id = cs[p].id
      /\ out[p].ret.type = SnippetType(req[p].interpreter)
      /\ out[p].ret.properties =
           to_properties(get_livy_props(SnippetType(req[p].interpreter),
                                        DefaultConfiguration(req[p].user)))

C4_Witness ==
  \E p \in Procs : Returned(p) /\ gh[p].path = "create" /\ gh[p].had /\ out[p].ret.id = 2

\* C5: on the create path, a last observed state of the new session other
\* than idle (a failure state, or still starting when the wait ends) makes
\* the call fail with a QueryError that names the state and carries the log
\* lines of that last status, and no session is returned.
C5_CreationError ==
  \A p \in Procs :
    (pc[p] = "cs_exit" /\ gh[p].answers # <<>> /\ gh[p].obs \in SessionStates \ {"idle"}) =>
      /\ out[p].ret = None
      /\ out[p].exc # None
      /\ out[p].exc.type = "QueryError"
      /\ out[p].exc.state = gh[p].obs
      /\ \A i \in DOMAIN gh[p].log : \E j \in DOMAIN out[p].exc.info :
           out[p].exc.info[j] = gh[p].log[i]

C5_Witness ==
  \E p \in Procs :
    /\ pc[p] = "cs_exit" /\ gh[p].answers # <<>> /\ gh[p].obs = "error"
    /\ gh[p].log = <<"l1", "l2">>
    /\ out[p].exc # None /\ out[p].exc.type = "QueryError"

\* C6: the session-start wait ends whatever the remote service answers: an
\* iteration runs only after an answer starting, the count of iterations
\* never exceeds 120, and at 120 the next step of the call ends it.
C6_BoundedWait ==
  /\ [](\A p \in Procs : cs[p].count <= 120)
  /\ [][\A p \in Procs :
          /\ (pc[p] = "cs_loop" /\ cs'[p].count # cs[p].count /\ pc'[p] = "cs_loop") =>
               /\ cs[p].status.state = "starting"
               /\ cs[p].count < 120
               /\ cs'[p].count = cs[p].count + 1
          /\ (pc[p] = "cs_loop" /\ cs[p].count = 120 /\ pc'[p] # pc[p]) =>
               pc'[p] = "cs_exit"
          /\ (pc[p] = "cs_loop" /\ cs[p].status.state # "starting" /\ pc'[p] # pc[p]) =>
               pc'[p] = "cs_exit"]_vars

C6_Witness ==
  \E p \in Procs : pc[p] = "cs_loop" /\ cs[p].count = 120 /\ cs[p].status.state = "starting"

StartingStartingIdle == <<"starting", "starting", "idle">>

\* C7: when get_session answers starting, starting, idle for the new
\* session, the wait has run exactly 2 iterations and runs no more, and
\* create_session succeeds and returns that session.
C7_StartingStartingIdle ==
  \A p \in Procs :
    /\ (pc[p] = "cs_loop" /\ gh[p].answers = StartingStartingIdle) =>
         /\ cs[p].count = 2
         /\ ~ENABLED CS_Poll(p)
    /\ (pc[p] = "cs_exit" /\ gh[p].answers = StartingStartingIdle) =>
         /\ out[p].exc = None
         /\ out[p].ret.id = cs[p].id
         /\ gh[p].path = "create"

C7_Witness ==
  \E p \in Procs : Returned(p) /\ gh[p].answers = StartingStartingIdle

(* ------------------------- close_session: claims ---------------------- *)

\* C8: a close_session whose remote close answers 404 ends in SessionExpired,
\* and the entry of the key is removed exactly when the stored record has the
\* id being closed: a stored record with another id stays in place.
C8_NotFoundClose ==
  \A p \in Procs :
    (pc[p] = "cl_exit" /\ cl[p].resp = [kind |-> "RestException", code |-> 404]) =>
      LET entry == store[req[p].user][<<req[p].user, "-", req[p].interpreter>>]
      IN /\ out[p].exc = [type |-> "SessionExpired"]
         /\ out[p].ret = None
         /\ IF cl[p].stored # None /\ cl[p].stored.id = cl[p].session.id
            THEN entry = None
            ELSE entry = cl[p].stored

C8_Witness ==
  \E p \in Procs :
    /\ pc[p] = "cl_exit" /\ cl[p].resp = [kind |-> "RestException", code |-> 404]
    /\ cl[p].stored # None /\ cl[p].stored.id = cl[p].session.id
    /\ store[req[p].user][<<req[p].user, "-", req[p].interpreter>>] = None

\* C9: every close_session of a session with a non-null id ends either
\* closed (the result carries the session id and status 0) or not found
\* (SessionExpired, after a 404 or a 500): there is no third outcome.
C9_TwoOutcomes ==
  \A p \in Procs :
    (pc[p] = "cl_exit" /\ cl[p].session.id # 0) =>
      \/ /\ out[p].exc = None
         /\ out[p].ret = [session |-> cl[p].session.id, status |-> 0]
      \/ /\ out[p].exc = [type |-> "SessionExpired"]
         /\ cl[p].resp.kind = "RestException"
         /\ cl[p].resp.code \in {404, 500}

(* ------------------- _close_unused_sessions: claims -------------------- *)

\* the id of the record stored for the request, 0 when there is none
StoredId(p) ==
  LET entry == store[req[p].user][<<req[p].user, "-", req[p].interpreter>>]
  IN IF entry = None THEN 0 ELSE entry.id

\* the listed session is one the sweep is to close
Reapable(session, p) ==
  /\ session.owner = req[p].user
  /\ session.state \in {"idle", "shutting_down", "error", "dead", "killed"}
  /\ session.id # StoredId(p)

\* C10: the sweep closes exactly the listed sessions that the user owns, that
\* are listed idle, shutting_down, error, dead or killed and whose id is not
\* the stored id: each session the loop takes from the listing is closed if
\* and only if it is such a session, a sweep that completes has taken every
\* session of the listing, and no close is ever issued for the stored
\* session, for a session of another owner or for one listed starting or busy.
C10_ReapsExactly ==
  /\ [](\A p \in Procs :
          req[p].op = "fetch_result" =>
            /\ StoredId(p) \notin gh[p].closes
            /\ pc[p] \in {"cl_close", "cl_finally", "cl_remove", "cl_exit"} =>
                 /\ cl[p].session = sw[p].session
                 /\ Reapable(cl[p].session, p)
            /\ (pc[p] = "sw_exit" /\ out[p].exc = None) => sw[p].ids = {})
  /\ [][\A p \in Procs :
          (pc[p] = "sw_loop" /\ sw'[p].ids # sw[p].ids) =>
            /\ sw'[p].session.id \in sw[p].ids
            /\ (pc'[p] = "cl_close" /\ cl'[p].session = sw'[p].session)
                 <=> Reapable(sw'[p].session, p)
            /\ pc'[p] # "cl_close" => pc'[p] = "sw_loop"]_vars

C10_Witness ==
  \E p \in Procs :
    /\ req[p].op = "fetch_result"
    /\ pc[p] = "sw_exit"
    /\ out[p].exc = None
    /\ gh[p].closes = {1, 2}
    /\ StoredId(p) = 3

(* ------------------------- concurrent requests ------------------------ *)

\* the polls of the wait that the concurrent specification follows
RaceWait == 3

\* two requests call create_session for the same key at the same time, each
\* once; the statements of the two interleave freely, and a wait is followed
\* for RaceWait polls
NextRace ==
  \E p \in Procs :
    \/ pc[p] = "idle" /\ StartCreateSession(p, {MainInterpreter})
    \/ create_session(p) /\ cs'[p].count <= RaceWait
    \/ Exit(p)

SpecRace == Init /\ [][NextRace]_vars

\* the request has ended a create_session that created its own session
CreatedOwn(p) ==
  /\ req[p].op = "create_session"
  /\ pc[p] = "done"
  /\ out[p].exc = None
  /\ gh[p].path = "create"

\* the step is the write of request p to the store (line 172)
Stores(p) == pc[p] = "cs_loop" /\ pc'[p] = "cs_exit" /\ out'[p].exc = None

\* C13: two concurrent create_session calls for one key can each create a
\* session of its own; the store has one record under the key, which every
\* write of a request replaces with the record of that request and nothing
\* else changes, so that when both requests have ended the record is the one
\* of the request that stored last.
C13_LastWriterWins ==
  /\ [][\A p \in Procs :
          Stores(p) =>
            /\ store'[req[p].user][<<req[p].user, "-", req[p].interpreter>>] = out'[p].ret
            /\ out'[p].ret.id = cs[p].id
            /\ \A u \in Users : \A k \in KeysOf(u) :
                 k # <<req[p].user, "-", req[p].interpreter>> => store'[u][k] = store[u][k]]_vars
  /\ [][store' # store => \E p \in Procs : Stores(p)]_vars
  /\ [](\A p, q \in Procs :
          (p # q /\ CreatedOwn(p) /\ CreatedOwn(q) /\ req[p] = req[q]) =>
            /\ out[p].ret.id # out[q].ret.id
            /\ remote[out[p].ret.id].owner = req[p].user
            /\ remote[out[q].ret.id].owner = req[p].user
            /\ store[req[p].user][<<req[p].user, "-", req[p].interpreter>>]
                 \in {out[p].ret, out[q].ret})

C13_Witness ==
  /\ CreatedOwn("r1") /\ CreatedOwn("r2")
  /\ ~gh["r1"].had /\ ~gh["r2"].had
  /\ out["r1"].ret.id = 1 /\ out["r2"].ret.id = 2
  /\ store["u1"][<<"u1", "-", "i1">>].id = 1

(* ---------------- the sweep and the method around it: claims ----------- *)

\* the request is in the sweep, or in a close_session the sweep has called
InSweep(p) ==
  \/ pc[p] \in {"sw_list", "sw_get_stored", "sw_loop", "sw_exit"}
  \/ /\ pc[p] \in {"cl_close", "cl_finally", "cl_remove", "cl_exit"}
     /\ Head(stack[p]) = "sw_loop"

\* the api.close of the request was answered with an HTTP error
CloseFailed(p) ==
  /\ cl[p].resp # None
  /\ cl[p].resp # Closed
  /\ cl[p].resp.kind = "RestException"

\* C11: the sweep is best-effort: after a close of the sweep that api.close
\* answered with an HTTP error (a 404 and a 500 included), the loop goes on
\* with the sessions of the listing it has not reached; and when the
\* enumeration fails the sweep ends normally without a close.
C11_BestEffortSweep ==
  [][\A p \in Procs :
       /\ (pc[p] = "cl_exit" /\ InSweep(p) /\ CloseFailed(p) /\ pc'[p] # pc[p]) =>
            pc'[p] = "sw_loop"
       /\ (pc[p] = "sw_list" /\ pc'[p] = "sw_exit") =>
            /\ out'[p].exc = None
            /\ gh'[p].closes = gh[p].closes]_vars

\* C12: an HTTP error of a close of the sweep, or a failure of the
\* enumeration, never makes the method around the sweep raise: the request
\* does not end in the sweep, and a fetch_result that has fetched its result
\* ends with that result.
C12_CleanupNeverPropagates ==
  /\ [][\A p \in Procs :
          (InSweep(p) /\ (pc[p] = "cl_exit" => CloseFailed(p))) =>
            pc'[p] # "done"]_vars
  /\ [](\A p \in Procs :
          (req[p].op = "fetch_result" /\ pc[p] = "done" /\ CloseFailed(p)) =>
            /\ out[p].exc = None
            /\ out[p].ret = op[p].response)

(* ---------------------- the duplicates are reclaimed ------------------ *)

\* the service brings the sessions it creates to idle within RaceWait polls
StartsWithin(p) ==
  /\ out'[p].exc = None
  /\ cs'[p].status # None =>
       /\ cs'[p].status.state \in {"starting", "idle"}
       /\ cs'[p].count >= RaceWait => cs'[p].status.state = "idle"

\* the service keeps answering the calls of the sweep: get_sessions lists
\* the sessions it has issued, close closes
SweepAnswered(p) ==
  /\ pc[p] = "sw_list" => (pc'[p] = "sw_get_stored" /\ sw'[p].ids = 1..Len(remote))
  /\ pc'[p] = "cl_finally" => cl'[p].resp = Closed

\* a step of a request that is running, but for the remote create
Running(p) ==
  \/ /\ CS_GetStored(p) \/ CS_Check(p) \/ CS_FirstGet(p) \/ CS_Poll(p) \/ CS_Finish(p)
     /\ StartsWithin(p)
  \/ /\ p \in SeqProcs
     /\ \/ handle_session_health_check(p)
        \/ fetch_result(p) /\ out'[p].exc = None
        \/ close_unused_sessions(p) /\ SweepAnswered(p)
        \/ close_session(p) /\ SweepAnswered(p)
  \/ Exit(p)

\* two requests create a session for the same key at the same time; when
\* both have ended the user calls fetch_result again and again (without
\* start_over)
NextReclaim ==
  \E p \in Procs :
    \/ pc[p] = "idle" /\ StartCreateSession(p, {MainInterpreter})
    \/ /\ p \in SeqProcs
       /\ \A q \in Procs : pc[q] = "done"
       /\ StartFetchResult(p, {MainInterpreter})
       /\ ~op'[p].start_over
    \/ CS_Create(p) /\ StartsWithin(p)
    \/ Running(p)

\* the remote create of request p answers: the request goes on to line 155
Answered(p) ==
  /\ pc[p] = "cs_create"
  /\ Len(remote) < MaxSessions
  /\ pc' = [pc EXCEPT ![p] = "cs_first_get"]

\* a request that has been called runs on, as the thread that serves it does
SpecReclaim ==
  /\ Init /\ [][NextReclaim]_vars
  /\ \A p \in Procs : WF_vars(Running(p)) /\ WF_pc(Answered(p))

\* session d is a duplicate: no create_session is running, the user owns
\* the session and the stored record is that of another session
Duplicate(d) ==
  /\ \A q \in Procs : pc[q] # "idle" /\ (req[q].op = "create_session" => pc[q] = "done")
  /\ Known(d)
  /\ remote[d].owner \in ActingUsers
  /\ \E p \in SeqProcs : StoredId(p) \notin {0, d}

\* a sweep starts
SweepStarts == \E p \in Procs : pc[p] = "sw_list"

\* the sweep has found session d listed starting or busy
ListedInUse(d) ==
  \E p \in Procs :
    /\ sw[p].session # None
    /\ sw[p].session.id = d
    /\ sw[p].session.state \in {"starting", "busy"}

\* the service has closed session d for a sweep
ClosedOk(d) ==
  \E p \in Procs :
    /\ pc[p] = "cl_finally"
    /\ InSweep(p)
    /\ cl[p].session.id = d
    /\ cl[p].resp = Closed

\* C14 as stated: when sweeps keep starting and the service keeps answering,
\* every duplicate is eventually closed.
C14_ReclaimedWhateverState ==
  \A d \in 1..Cardinality(Procs) :
    []<>SweepStarts => (Duplicate(d) ~> ClosedOk(d))

\* C14: when sweeps keep starting and the service keeps answering, every
\* duplicate that the listings stop showing as starting or busy is
\* eventually closed.
C14_EventuallyReclaimed ==
  \A d \in 1..Cardinality(Procs) :
    ([]<>SweepStarts /\ <>[]~ListedInUse(d)) => (Duplicate(d) ~> ClosedOk(d))

C14_Witness ==
  /\ Len(remote) = 2
  /\ StoredId("r1") = 2
  /\ req["r2"].op = "create_session" /\ pc["r2"] = "done"
  /\ req["r1"].op = "fetch_result"
  /\ ClosedOk(1)

(* --------------------------- _execute: claims -------------------------- *)

\* the messages that, in lower case, match "session ('\d+' )?not found" or
\* have 'connection refused' or 'session is in state busy' in them
ExpiredMessages ==
  { <<"Session", "'1'", "not", "found">>,
    <<"session", "not", "found">>,
    <<"Connection", "refused">>,
    <<"Session", "is", "in", "state", "busy">> }

\* C15: _execute ends its submit in one of three ways: it returns the id the
\* service gave the statement; it raises SessionExpired, and then the message
\* of the failure is one of the three kinds; or it raises the exception of
\* the failure itself, and then the message is of none of the three kinds.
C15_SubmitClassification ==
  \A p \in Procs :
    pc[p] = "ex_exit" =>
      \/ /\ out[p].exc = None
         /\ out[p].ret \in {[id |-> s, has_result_set |-> TRUE, sync |-> FALSE] : s \in StatementIds}
      \/ /\ out[p].exc # None
         /\ out[p].ret = None
         /\ out[p].exc.type = "SessionExpired"
         /\ out[p].exc.message \in ExpiredMessages
      \/ /\ out[p].exc # None
         /\ out[p].ret = None
         /\ out[p].exc.type = "Exception"
         /\ out[p].exc.message \in Messages \ ExpiredMessages

C15_Witness ==
  \E p \in Procs :
    /\ pc[p] = "ex_exit"
    /\ out[p].exc = SessionExpired(<<"Session", "is", "in", "state", "busy">>)

(* ---------------- _check_status_and_fetch_result: claims --------------- *)

\* C16: the statement polling loop ends whatever the remote service reports:
\* an iteration runs only after an answer running or waiting, the count of
\* iterations never exceeds 120, and at 120 the next step leaves the loop.
C16_BoundedPolling ==
  /\ [](\A p \in Procs : ps[p].count <= 120)
  /\ [][\A p \in Procs :
          /\ (pc[p] = "ps_loop" /\ ps'[p].count # ps[p].count /\ pc'[p] = "ps_loop") =>
               /\ ps[p].state \in {"running", "waiting"}
               /\ ps[p].count < 120
               /\ ps'[p].count = ps[p].count + 1
          /\ (pc[p] = "ps_loop" /\ ps[p].count = 120 /\ pc'[p] # pc[p]) =>
               pc'[p] \in {"ps_exit", "ps_fetch"}
          /\ (pc[p] = "ps_loop" /\ ps[p].state \notin {"running", "waiting"}
                /\ pc'[p] # pc[p]) =>
               pc'[p] \in {"ps_exit", "ps_fetch"}]_vars

C16_Witness ==
  \E p \in Procs : pc[p] = "ps_loop" /\ ps[p].count = 120 /\ ps[p].state = "running"

\* the status fetches that the mock service answers running
MockRunning == 5

\* the answer of the mock service to status fetch number n
MockState(n) == IF n <= MockRunning THEN "running" ELSE "available"

\* the status fetches of request p are answered by the mock service: the
\* fetch before the loop is number 1, the fetch that brings count to k is
\* number k + 1
Mock(p) ==
  /\ pc[p] = "ps_first" => (pc'[p] = "ps_loop" /\ ps'[p].state = MockState(1))
  /\ pc[p] = "ps_loop" =>
       /\ out'[p].exc = None
       /\ pc'[p] = "ps_loop" => ps'[p].state = MockState(ps'[p].count + 1)

\* autocomplete and get_sample_data against a service that brings its
\* sessions up and answers the status fetches as the mock does
NextMock ==
  \E p \in SeqProcs :
    \/ StartAutocomplete(p, {MainInterpreter})
    \/ StartGetSampleData(p, {MainInterpreter})
    \/ resolve_and_run(p)
    \/ close_unused_sessions(p)
    \/ CL_Close(p) \/ CL_Finally(p)
    \/ create_session(p) /\ StartsWithin(p)
    \/ execute(p)
    \/ check_status_and_fetch_result(p) /\ Mock(p)
    \/ Exit(p)

SpecMock == Init /\ [][NextMock]_vars

\* C17: against a service that answers running to the first 5 status
\* fetches and available afterwards, the loop makes 6 status fetches and no
\* more: count never exceeds 5, at count 5 the state is available and no
\* iteration can run, and the next step goes on to fetch the result.
C17_StopsOnSixthFetch ==
  /\ [](\A p \in Procs :
          /\ ps[p].count <= MockRunning
          /\ (pc[p] = "ps_loop" /\ ps[p].count = MockRunning) =>
               /\ ps[p].state = "available"
               /\ ~ENABLED PS_Poll(p)
          /\ (pc[p] = "ps_loop" /\ ps[p].count < MockRunning) => ps[p].state = "running"
          /\ pc[p] = "ps_fetch" => (ps[p].count = MockRunning /\ ps[p].state = "available"))
  /\ [][\A p \in Procs :
          (pc[p] = "ps_loop" /\ pc'[p] # pc[p]) => pc'[p] = "ps_fetch"]_vars

C17_Witness ==
  \E p \in Procs :
    /\ req[p].op = "get_sample_data"
    /\ pc[p] = "ps_fetch"
    /\ ps[p].count = 5
    /\ ps[p].state = "available"

\* the polling of the statement has ended without a result to fetch
SilentExit(p) == pc[p] = "op_polled" /\ ps[p].state \notin {"none", "available"}

\* C18: a polling loop that ends in a state other than available (at the
\* cap while running or waiting, or on error, cancelling or cancelled) is a
\* silent non-success: _check_status_and_fetch_result makes no result fetch
\* and raises nothing, and the method that called it raises nothing either.
C18_SilentNonSuccess ==
  /\ [][\A p \in Procs :
          (/\ pc[p] = "ps_loop"
           /\ ps[p].state # "available"
           /\ ~(ps[p].state \in {"running", "waiting"} /\ ps[p].count < 120)
           /\ pc'[p] # pc[p]) =>
            (pc'[p] = "ps_exit" /\ out'[p] = NoOut)]_vars
  /\ [][\A p \in Procs :
          (SilentExit(p) /\ pc'[p] # pc[p]) => out'[p].exc = None]_vars

(* ------------------------ _fetch_result: claims ------------------------ *)

DataKeys == {TableKey, ImageKey, JsonKey, TextKey}

\* the value a payload with status error has under a key
ErrorValue(key, tb) ==
  CASE key = "status" -> "error"
    [] key = "ename" -> "NameError"
    [] key = "evalue" -> PyStr("x")
    [] key = "traceback" -> PyList(tb)

\* response['output'] of a statement: nothing, a payload with status ok and
\* any of the four keys in its data, a payload with status error and any of
\* ename, evalue and traceback (empty or not), or a payload with another
\* status
Payloads ==
  {None}
    \cup {OkContent(keys) : keys \in SUBSET DataKeys}
    \cup {[k \in {"status"} \cup keys |-> ErrorValue(k, tb)] :
            keys \in SUBSET {"ename", "evalue", "traceback"},
            tb \in {<<>>, <<"t1", "t2">>}}
    \cup {[status |-> "cancelled"]}

\* _fetch_result is called, and api.fetch_data has answered with a payload
InitNormalize ==
  /\ remote = <<[owner |-> "u1"]>>
  /\ store = [u \in Users |-> [k \in KeysOf(u) |-> None]]
  /\ pc = [p \in Procs |-> IF p \in SeqProcs THEN "fr_normalize" ELSE "idle"]
  /\ stack = [p \in Procs |-> <<>>]
  /\ req = [p \in Procs |-> IF p \in SeqProcs
                            THEN Request("fetch_result", "u1", "i1") ELSE NoReq]
  /\ cs = [p \in Procs |-> NoCs]
  /\ cl = [p \in Procs |-> NoCl]
  /\ sw = [p \in Procs |-> NoSw]
  /\ hc = [p \in Procs |-> NoHc]
  /\ ex = [p \in Procs |-> NoEx]
  /\ ps = [p \in Procs |-> NoPs]
  /\ \E content \in Payloads, start_over \in BOOLEAN :
       op = [p \in Procs |-> IF p \in SeqProcs
                             THEN [NoOp EXCEPT !.response = content,
                                               !.start_over = start_over]
                             ELSE NoOp]
  /\ out = [p \in Procs |-> NoOut]
  /\ gh = [p \in Procs |-> NoGh]

\* lines 255-304 on the payload
Normalize(p) ==
  /\ pc[p] = "fr_normalize"
  /\ LET o == fetch_result_of(op[p].response, op[p].start_over)
     IN Finish(p, "done", o.ret, o.exc)
  /\ UNCHANGED <<remote, store, req, cs, cl, sw, hc, ex, ps, op, gh>>

NextNormalize == \E p \in SeqProcs : Normalize(p)

\* _fetch_result as a function of the payload and of start_over
SpecNormalize == InitNormalize /\ [][NextNormalize]_vars

\* _fetch_result has ended for request p
Normalized(p) == req[p].op = "fetch_result" /\ pc[p] = "done"

\* C19: _fetch_result with start_over false yields a result with no rows,
\* whatever the payload: here for every payload with status ok, whichever of
\* the four keys its data has.
C19_NoRowsWithoutStartOver ==
  \A p \in Procs :
    (/\ Normalized(p)
     /\ ~op[p].start_over
     /\ op[p].response # None
     /\ op[p].response.status = "ok") =>
      /\ out[p].exc = None
      /\ out[p].ret # None
      /\ out[p].ret.data = <<>>

\* the shape the priority order tabular > image > structured > text gives a
\* payload with status ok whose data has the keys of a non-empty set
ShapeByPriority(data) ==
  IF TableKey \in DOMAIN data
  THEN [type |-> "table", rows |-> data[TableKey].data,
        schema |-> Meta(data[TableKey].headers)]
  ELSE IF ImageKey \in DOMAIN data
  THEN [type |-> "image", images |-> <<data[ImageKey]>>,
        schema |-> << [name |-> "Header", type |-> "STRING_TYPE", comment |-> ""] >>]
  ELSE IF JsonKey \in DOMAIN data
  THEN [type |-> "table", rows |-> data[JsonKey].data,
        schema |-> Meta(data[JsonKey].schema.fields)]
  ELSE [type |-> "text", rows |-> << <<data[TextKey]>> >>,
        schema |-> << [name |-> "Header", type |-> "STRING_TYPE", comment |-> ""] >>]

\* C20: for a payload with status ok, _fetch_result gives the shape of the
\* first of tabular, image, structured and text that the data has: a table
\* with the schema of the headers; else the image with the one-column Header
\* schema; else a table with the rows and the schema fields of the
\* structured value; else one row of one text cell under the Header column.
C20_ShapeByPriority ==
  \A p \in Procs :
    (/\ Normalized(p)
     /\ op[p].start_over
     /\ op[p].response # None
     /\ op[p].response.status = "ok"
     /\ DOMAIN op[p].response.data # {}) =>
      LET shape == ShapeByPriority(op[p].response.data)
      IN /\ out[p].exc = None
         /\ out[p].ret # None
         /\ out[p].ret.meta = shape.schema
         /\ shape.type = "image" => out[p].ret.images = shape.images
         /\ shape.type # "image" =>
              (out[p].ret.type = shape.type /\ out[p].ret.data = shape.rows)

(* -------------------- _fetch_result: error payloads -------------------- *)

\* _fetch_result has ended for request p on a payload with status error
NormalizedError(p) ==
  /\ Normalized(p)
  /\ op[p].response # None
  /\ op[p].response.status = "error"

\* C21: for a payload with status error _fetch_result raises a QueryError and
\* returns nothing; the message is the entries of the traceback one after the
\* other when the payload has a non-empty traceback, else the error name
\* ('unknown error' without one), followed by ': ' and the error value when
\* the payload has a value.
C21_ErrorPayloadRaises ==
  \A p \in Procs :
    NormalizedError(p) =>
      LET content == op[p].response
          name == IF "ename" \in DOMAIN content
                  THEN content.ename ELSE "unknown error"
      IN /\ out[p].ret = None
         /\ out[p].exc # None
         /\ out[p].exc.type = "QueryError"
         /\ out[p].exc.message =
              IF "traceback" \in DOMAIN content /\ Len(content.traceback.v) > 0
              THEN content.traceback.v
              ELSE IF "evalue" \in DOMAIN content
              THEN <<name, ": ", content.evalue.v>>
              ELSE <<name>>

C21_Witness ==
  \E p \in Procs :
    /\ NormalizedError(p)
    /\ DOMAIN op[p].response = {"status", "ename", "evalue", "traceback"}
    /\ out[p].exc # None
    /\ out[p].exc.message = <<"t1", "t2">>

(* ----------------------- properties of a session ----------------------- *)

\* the longest property list a caller passes
MaxProps == 2

\* the entries of the caller's property lists: values that override a
\* default, a comma-separated string and a list for a list key, a conf list,
\* a name that is not a default, an entry without value and one without name
PropertyEntries ==
  { [name |-> "driverMemory", value |-> PyStr(<<"2G">>)],
    [name |-> "driverMemory", value |-> PyStr(<<"4G">>)],
    [name |-> "jars", value |-> PyStr(<<"a", ",", "b">>)],
    [name |-> "files", value |-> PyList(<<PyStr(<<"f">>)>>)],
    [name |-> "conf", value |-> PyList(<<[key |-> "k", value |-> "v"]>>)],
    [name |-> "name", value |-> PyStr(<<"n">>)],
    [name |-> "queue"],
    [value |-> PyStr(<<"8G">>)] }

RECURSIVE ListsOver(_, _)
\* the sequences of at most n elements of S
ListsOver(S, n) ==
  IF n = 0 THEN {<<>>}
  ELSE LET shorter == ListsOver(S, n - 1)
       IN shorter \cup {Append(l, e) : l \in shorter, e \in S}

\* the properties argument of create_session
PropertyLists == {None} \cup {PyList(l) : l \in ListsOver(PropertyEntries, MaxProps)}

\* the record an earlier create_session(lang) of the user left in the store
EarlierSession(user, lang) ==
  new_session_info(lang, 1, get_livy_props(lang, DefaultedProperties(user, None)))

\* create_session(lang, properties) is called by a user who has no stored
\* session, or has the one an earlier call created
InitProps ==
  /\ \E earlier \in BOOLEAN :
       /\ remote = IF earlier THEN <<[owner |-> "u1"]>> ELSE <<>>
       /\ store = [u \in Users |-> [k \in KeysOf(u) |->
                     IF earlier /\ u = "u1" /\ k = get_session_key("u1", MainInterpreter)
                     THEN EarlierSession("u1", SnippetType(MainInterpreter))
                     ELSE None]]
  /\ pc = [p \in Procs |-> IF p \in SeqProcs THEN "cs_get_stored" ELSE "idle"]
  /\ stack = [p \in Procs |-> IF p \in SeqProcs THEN <<"done">> ELSE <<>>]
  /\ req = [p \in Procs |-> IF p \in SeqProcs
                            THEN Request("create_session", "u1", MainInterpreter)
                            ELSE NoReq]
  /\ \E properties \in PropertyLists :
       cs = [p \in Procs |-> IF p \in SeqProcs
                             THEN [NoCs EXCEPT !.lang = SnippetType(MainInterpreter),
                                               !.properties = properties]
                             ELSE NoCs]
  /\ cl = [p \in Procs |-> NoCl]
  /\ sw = [p \in Procs |-> NoSw]
  /\ hc = [p \in Procs |-> NoHc]
  /\ ex = [p \in Procs |-> NoEx]
  /\ ps = [p \in Procs |-> NoPs]
  /\ op = [p \in Procs |-> NoOp]
  /\ out = [p \in Procs |-> NoOut]
  /\ gh = [p \in Procs |-> NoGh]

NextProps ==
  \E p \in SeqProcs :
    \/ create_session(p) /\ StartsWithin(p)
    \/ Exit(p)

\* create_session as a function of its properties argument, the service
\* starting every session it is asked for
SpecProps == InitProps /\ [][NextProps]_vars

\* the entries of the list l that have both a name and a value
Named(l, name) ==
  {j \in DOMAIN l : "name" \in DOMAIN l[j] /\ "value" \in DOMAIN l[j] /\ l[j].name = name}

\* the value of the last of them (None when l has no such entry)
Supplied(l, name) ==
  IF Named(l, name) = {} THEN None
  ELSE l[CHOOSE j \in Named(l, name) : \A k \in Named(l, name) : k <= j].value

\* request p creates a session with a non-empty property list of its caller
StoresSupplied(p) ==
  /\ Stores(p)
  /\ cs[p].properties # None
  /\ cs[p].properties.v # <<>>

\* C22 as stated: the properties in the record create_session stores are the
\* defaults, in their order, the value of each entry whose name occurs in the
\* caller's list replaced by the caller's value and every other entry with
\* its default value.
C22_PropertyMerge ==
  [][\A p \in Procs :
       StoresSupplied(p) =>
         out'[p].ret.properties =
           [i \in DOMAIN PROPERTIES |->
              LET value == Supplied(cs[p].properties.v, PROPERTIES[i].name)
              IN IF value # None
                 THEN [PROPERTIES[i] EXCEPT !.value = value]
                 ELSE PROPERTIES[i]]]_vars

\* a value as the session request carries it: the conf list as the dictionary
\* of its key/value pairs, a string of a list key as the list of its
\* comma-separated parts
AsRequested(name, value) ==
  IF name = "conf" THEN PyDict(ConfDict(value.v))
  ELSE IF name \in ListKeys /\ value.t = "str" THEN PyList(Split(value.v))
  ELSE value

\* C22 (amended): the stored properties are the defaults, in their order, each
\* with the caller's last value for its name when the caller's list has a
\* well-formed entry of that name and with its default value otherwise, the
\* value in both cases in the form the session request carries it.
C22_PropertyMergeAsRequested ==
  [][\A p \in Procs :
       StoresSupplied(p) =>
         /\ store'[req[p].user][get_session_key(req[p].user, req[p].interpreter)]
              = out'[p].ret
         /\ out'[p].ret.properties =
              [i \in DOMAIN PROPERTIES |->
                 LET value == Supplied(cs[p].properties.v, PROPERTIES[i].name)
                 IN [PROPERTIES[i] EXCEPT !.value =
                       AsRequested(PROPERTIES[i].name,
                                   IF value # None THEN value ELSE PROPERTIES[i].value)]]]_vars

\* a session was created with driverMemory given twice and jars as a string
C22_Witness ==
  \E p \in Procs :
    /\ pc[p] = "done" /\ gh[p].path = "create"
    /\ out[p].ret # None
    /\ out[p].ret.properties[5].value = PyStr(<<"4G">>)
    /\ out[p].ret.properties[1].value = PyDict(<<>>)
    /\ store["u1"][get_session_key("u1", MainInterpreter)] = out[p].ret

\* request p has made the remote create call with the properties of its
\* caller's non-empty list
SentSupplied(p) ==
  /\ req[p].op = "create_session"
  /\ pc[p] = "cs_first_get"
  /\ cs[p].properties # None
  /\ cs[p].properties.v # <<>>

\* C23: the default of driverMemory being '1G', the properties of the remote
\* create call have driverMemory '2G' when the caller's list gives
\* driverMemory as '2G'; and an entry of the caller's list without a name or
\* without a value overrides nothing: a default that no entry with name and
\* value names goes out with its default value, and no other name is added.
C23_CallerValueWins ==
  \A p \in Procs :
    (SentSupplied(p) /\ \E i \in DOMAIN PROPERTIES :
                          PROPERTIES[i] = [name |-> "driverMemory", value |-> PyStr(<<"1G">>)]) =>
      LET l == cs[p].properties.v
      IN /\ (/\ Named(l, "driverMemory") # {}
             /\ \A j \in Named(l, "driverMemory") : l[j].value = PyStr(<<"2G">>)) =>
               cs[p].props["driverMemory"] = PyStr(<<"2G">>)
         /\ \A i \in DOMAIN PROPERTIES :
              Named(l, PROPERTIES[i].name) = {} =>
                cs[p].props[PROPERTIES[i].name] =
                  IF PROPERTIES[i].name = "conf" THEN PyDict(<<>>) ELSE PROPERTIES[i].value
         /\ \A k \in DOMAIN cs[p].props :
              \/ k = "kind"
              \/ \E i \in DOMAIN PROPERTIES : PROPERTIES[i].name = k
              \/ Named(l, k) # {}

\* the call went out for the list of an entry without value and driverMemory
C23_Witness ==
  \E p \in Procs :
    /\ SentSupplied(p)
    /\ cs[p].properties.v = << [name |-> "queue"],
                               [name |-> "driverMemory", value |-> PyStr(<<"2G">>)] >>
    /\ cs[p].props["driverMemory"] = PyStr(<<"2G">>)
    /\ cs[p].props["queue"] = PyStr(<<"default">>)

(* --------------------------- cancel, get_log --------------------------- *)

\* request p has made the remote call of its method and the call failed
CallFailed(p) == gh[p].answer # None /\ gh[p].answer.kind # "ok"

\* C24: a failure of the remote cancel call is never raised: whatever way the
\* call fails, cancel ends without an exception and returns status 0.
C24_CancelAdvisory ==
  /\ [](\A p \in Procs :
         (req[p].op = "cancel" /\ CallFailed(p)) =>
           /\ pc[p] \in {"op_exit", "done"}
           /\ out[p] = [ret |-> [status |-> 0], exc |-> None])
  /\ [][\A p \in Procs :
          (pc[p] = "ca_cancel" /\ pc'[p] # pc[p]) =>
            (pc'[p] = "op_exit" /\ out'[p].exc = None)]_vars

C24_Witness ==
  \E p \in Procs :
    /\ req[p].op = "cancel" /\ pc[p] = "done"
    /\ gh[p].answer = OtherError
    /\ out[p].ret = [status |-> 0]

\* C25: a transport or connection error of the remote get_log call (a
\* RestException of the REST client, whatever its status code) is not raised:
\* get_log ends without an exception and returns {status: 0}.
C25_LogBestEffort ==
  \A p \in Procs :
    (/\ req[p].op = "get_log"
     /\ gh[p].answer # None
     /\ gh[p].answer.kind = "RestException") =>
      /\ pc[p] \in {"op_exit", "done"}
      /\ out[p] = [ret |-> [status |-> 0], exc |-> None]

C25_Witness ==
  \E p \in Procs :
    /\ req[p].op = "get_log" /\ pc[p] = "done"
    /\ gh[p].answer = RestException(500)
    /\ out[p].ret = [status |-> 0]

(* ------------------------ the store: life cycle ------------------------ *)

\* the record stored for the user and interpreter of request p
StoredOf(p) == store[req[p].user][get_session_key(req[p].user, req[p].interpreter)]

\* the store holds session id for the user and interpreter of request p
Holds(p, id) == StoredOf(p) # None /\ StoredOf(p).id = id

\* after the step the store holds session id for them
HeldNext(p, id) ==
  LET stored == store'[req[p].user][get_session_key(req[p].user, req[p].interpreter)]
  IN stored # None /\ stored.id = id

\* C26: the stored record is removed when its session is closed, when the
\* liveness check on it fails and when a new session supersedes it: after
\* close_session of the stored session has ended, after an operation has
\* ended that found the stored session unusable, and after create_session has
\* stored a new session, the store does not hold the old session's id.
C26_RemovedWhenUnusable ==
  [][\A p \in Procs :
       /\ (/\ pc[p] \in {"cl_finally", "cl_remove"}
           /\ pc'[p] = "cl_exit"
           /\ Holds(p, cl[p].session.id)) =>
             ~HeldNext(p, cl[p].session.id)
       /\ (/\ pc[p] = "hc_check_stored"
           /\ pc'[p] = "hc_exit"
           /\ out'[p].exc = PopupException) =>
             ~HeldNext(p, hc[p].stored.id)
       /\ (/\ pc[p] = "cs_loop"
           /\ pc'[p] = "cs_exit"
           /\ out'[p].exc = None
           /\ StoredOf(p) # None) =>
             (HeldNext(p, cs[p].id) /\ ~HeldNext(p, StoredOf(p).id))]_vars

(* ----------------------- the store: two pairs -------------------------- *)

\* the interpreter a request thread serves
PairOf(p) == IF p \in SeqProcs THEN {MainInterpreter} ELSE Interpreters \ {MainInterpreter}

\* the statement of fetch_result has a text result
TextFetched(p) ==
  /\ out'[p].exc = None
  /\ pc[p] = "fr_fetch" => (op'[p].response # None /\ op'[p].response.type = "text")

\* requests of the user for two interpreters run at the same time: each
\* thread creates a session; the one then fetches results again and again
\* (with the reap sweep), the other closes sessions; the service starts the
\* sessions it is asked for
NextPairs ==
  \E p \in Procs :
    \/ pc[p] = "idle" /\ StartCreateSession(p, PairOf(p))
    \/ /\ p \in SeqProcs
       /\ \/ pc[p] = "done" /\ StartFetchResult(p, PairOf(p)) /\ ~op'[p].start_over
          \/ handle_session_health_check(p)
          \/ fetch_result(p) /\ TextFetched(p)
          \/ close_unused_sessions(p)
    \/ p \notin SeqProcs /\ pc[p] = "done" /\ StartCloseSession(p, PairOf(p))
    \/ create_session(p) /\ StartsWithin(p)
    \/ close_session(p)
    \/ Exit(p)

SpecPairs == Init /\ [][NextPairs]_vars

CheckAnswers(id) ==
  (GetSessionAnswers(id) \ {None})
    \cup {RestException(c) : c \in RestCodes} \cup {OtherError}

\* only a RestException is caught
Caught_RestOnly(answer) ==
  IF "kind" \notin DOMAIN answer THEN Returns(answer)
  ELSE IF answer.kind = "RestException" THEN Returns(None)
  ELSE Raises(answer.kind)

\* lines 128-131: session_present, None after any exception
Caught(answer) ==
  IF "kind" \in DOMAIN answer THEN Returns(None) ELSE Returns(answer)

\* _check_session(session) is called for a session with any id (0: one the
\* service has never issued), the service having issued some sessions and the
\* store holding a record or not
InitCheck ==
  /\ \E n \in 0..MaxSessions, stored \in BOOLEAN :
       /\ remote = [i \in 1..n |-> [owner |-> "u1"]]
       /\ store = [u \in Users |-> [k \in KeysOf(u) |->
                     IF stored /\ n > 0 /\ u = "u1"
                               /\ k = get_session_key("u1", MainInterpreter)
                     THEN EarlierSession("u1", SnippetType(MainInterpreter))
                     ELSE None]]
  /\ pc = [p \in Procs |-> IF p \in SeqProcs THEN "ck_get" ELSE "idle"]
  /\ stack = [p \in Procs |-> <<>>]
  /\ req = [p \in Procs |-> IF p \in SeqProcs
                            THEN Request("check_session", "u1", MainInterpreter)
                            ELSE NoReq]
  /\ \E session \in SessionArgs :
       cs = [p \in Procs |-> IF p \in SeqProcs
                             THEN [NoCs EXCEPT !.stored = session] ELSE NoCs]
  /\ cl = [p \in Procs |-> NoCl]
  /\ sw = [p \in Procs |-> NoSw]
  /\ hc = [p \in Procs |-> NoHc]
  /\ ex = [p \in Procs |-> NoEx]
  /\ ps = [p \in Procs |-> NoPs]
  /\ op = [p \in Procs |-> NoOp]
  /\ out = [p \in Procs |-> NoOut]
  /\ gh = [p \in Procs |-> NoGh]

\* lines 127-131
CK_Get(p) ==
  /\ pc[p] = "ck_get"
  /\ \E answer \in CheckAnswers(cs[p].stored.id) :
       /\ gh' = [gh EXCEPT ![p].answer = answer]
       /\ IF Caught(answer).exc # None
          THEN /\ Finish(p, "done", None, Caught(answer).exc)
               /\ UNCHANGED cs
          ELSE /\ cs' = [cs EXCEPT ![p].status = Caught(answer).ret]
               /\ Goto(p, "ck_test")
               /\ UNCHANGED out
  /\ UNCHANGED <<remote, store, req, cl, sw, hc, ex, ps, op>>

\* lines 133-134
CK_Test(p) ==
  /\ pc[p] = "ck_test"
  /\ Finish(p, "done", check_session(cs[p].status), None)
  /\ UNCHANGED <<remote, store, req, cs, cl, sw, hc, ex, ps, op, gh>>

NextCheck == \E p \in SeqProcs : CK_Get(p) \/ CK_Test(p)

\* _check_session on its own
SpecCheck == InitCheck /\ [][NextCheck]_vars

\* C28: _check_session returns what get_session answered when it answered a
\* state other than dead, shutting_down, error and killed, and None in every
\* other case, also when get_session raised, whatever it raised; it raises
\* nothing, and no step of it changes the sessions of the service or the
\* store.
C28_CheckSessionIsPure ==
  /\ [](\A p \in Procs :
         (req[p].op = "check_session" /\ pc[p] = "done") =>
           /\ out[p].exc = None
           /\ out[p].ret =
                IF /\ "state" \in DOMAIN gh[p].answer
                   /\ gh[p].answer.state \notin {"dead", "shutting_down", "error", "killed"}
                THEN gh[p].answer
                ELSE None)
  /\ [][\A p \in Procs :
          (req[p].op = "check_session" /\ pc'[p] # pc[p]) =>
            (remote' = remote /\ store' = store)]_vars

\* get_session failed with something else than a RestException
C28_Witness ==
  \E p \in Procs :
    /\ req[p].op = "check_session" /\ pc[p] = "done"
    /\ gh[p].answer = OtherError
    /\ out[p] = [ret |-> None, exc |-> None]
    /\ store["u1"][get_session_key("u1", MainInterpreter)] # None

(* ------------------------ _get_standalone_jobs ------------------------- *)

\* the longest log, in lines
MaxLines == 3

\* the texts that SPARK_UI_RE takes for group 1 (scheme, host and port) and
\* STANDALONE_JOB_RE for its group 1 (digits)
Urls == {"http://h1:4040", "https://h2:8080"}
JobNumbers == {"1", "2"}

\* the lines of a log, each the sequence of its words: the start of the
\* Spark UI with a url, the same with a host only, a job with a number, a
\* job without one, and any other line
LogLines ==
  {<<"Started", "SparkUI", "at", u>> : u \in Urls \cup {"h1"}}
    \cup {<<"Got", "job", n>> : n \in JobNumbers \cup {"x"}}
    \cup {<<"INFO">>}

Texts == ListsOver(LogLines, MaxLines)

\* SPARK_UI_RE matches in the line
SPARK_UI_RE(line) ==
  Len(line) >= 4 /\ SubSeq(line, 1, 3) = <<"Started", "SparkUI", "at">> /\ line[4] \in Urls

\* STANDALONE_JOB_RE matches in the line
STANDALONE_JOB_RE(line) ==
  Len(line) >= 3 /\ SubSeq(line, 1, 2) = <<"Got", "job">> /\ line[3] \in JobNumbers

\* the lists that hold each element of the set S once: a list made from a
\* python set has its elements in any order
ListsOf(S) ==
  {l \in [1..Cardinality(S) -> S] : \A i, j \in DOMAIN l : l[i] = l[j] => i = j}

\* every match counts, the job ids not being collected in a set
get_standalone_jobs_NoSet(logs) ==
  LET ui == SelectSeq(logs, SPARK_UI_RE)
      found == SelectSeq(logs, STANDALONE_JOB_RE)
  IN IF ui = <<>> THEN {<<>>}
     ELSE {[i \in DOMAIN found |->
              [name |-> found[i][3],
               url |-> ui[1][4] \o "/jobs/job/?id=" \o found[i][3]]]}

\* the jobs are listed also without a Spark UI url
get_standalone_jobs_NoUrlTest(logs) ==
  LET ui == SelectSeq(logs, SPARK_UI_RE)
      found == SelectSeq(logs, STANDALONE_JOB_RE)
      spark_ui_url == IF ui = <<>> THEN "None" ELSE ui[1][4]
      job_ids == {found[i][3] : i \in DOMAIN found}
  IN {[i \in DOMAIN l |->
         [name |-> l[i], url |-> spark_ui_url \o "/jobs/job/?id=" \o l[i]]] :
        l \in ListsOf(job_ids)}

\* lines 540-562: the lists _get_standalone_jobs can return for a log
get_standalone_jobs(logs) ==
  LET ui == SelectSeq(logs, SPARK_UI_RE)
      found == SelectSeq(logs, STANDALONE_JOB_RE)
      job_ids == {found[i][3] : i \in DOMAIN found}
  IN IF ui = <<>> THEN {<<>>}
     ELSE {[i \in DOMAIN l |->
              [name |-> l[i], url |-> ui[1][4] \o "/jobs/job/?id=" \o l[i]]] :
             l \in ListsOf(job_ids)}

\* _get_standalone_jobs(logs) is called
InitJobs ==
  /\ remote = <<>>
  /\ store = [u \in Users |-> [k \in KeysOf(u) |-> None]]
  /\ pc = [p \in Procs |-> IF p \in SeqProcs THEN "sj_search" ELSE "idle"]
  /\ stack = [p \in Procs |-> <<>>]
  /\ req = [p \in Procs |-> IF p \in SeqProcs
                            THEN Request("get_standalone_jobs", "u1", MainInterpreter)
                            ELSE NoReq]
  /\ cs = [p \in Procs |-> NoCs]
  /\ cl = [p \in Procs |-> NoCl]
  /\ sw = [p \in Procs |-> NoSw]
  /\ hc = [p \in Procs |-> NoHc]
  /\ ex = [p \in Procs |-> NoEx]
  /\ ps = [p \in Procs |-> NoPs]
  /\ \E logs \in Texts :
       op = [p \in Procs |-> IF p \in SeqProcs
                             THEN [NoOp EXCEPT !.response = PyList(logs)] ELSE NoOp]
  /\ out = [p \in Procs |-> NoOut]
  /\ gh = [p \in Procs |-> NoGh]

StandaloneJobs(p) ==
  /\ pc[p] = "sj_search"
  /\ \E jobs \in get_standalone_jobs(op[p].response.v) :
       Finish(p, "done", PyList(jobs), None)
  /\ UNCHANGED <<remote, store, req, cs, cl, sw, hc, ex, ps, op, gh>>

NextJobs == \E p \in SeqProcs : StandaloneJobs(p)

\* _get_standalone_jobs as a function of the log
SpecJobs == InitJobs /\ [][NextJobs]_vars

\* _get_standalone_jobs has ended for request p
Extracted(p) == req[p].op = "get_standalone_jobs" /\ pc[p] = "done"

\* the lines of the log of request p that begin as the words do
LinesOf(p, words) ==
  {i \in DOMAIN op[p].response.v :
     /\ Len(op[p].response.v[i]) > Len(words)
     /\ SubSeq(op[p].response.v[i], 1, Len(words)) = words}

\* C29: for a log without a line that reports the start of the Spark UI the
\* result is the empty list, however many jobs the log reports.
C29_NoUiNoJobs ==
  \A p \in Procs :
    (Extracted(p) /\ LinesOf(p, <<"Started", "SparkUI", "at">>) = {}) =>
      out[p] = [ret |-> PyList(<<>>), exc |-> None]

\* two jobs reported and no Spark UI
C29_Witness ==
  \E p \in Procs :
    /\ Extracted(p)
    /\ op[p].response.v = << <<"Got", "job", "1">>, <<"Got", "job", "2">> >>
    /\ out[p].ret = PyList(<<>>)

\* the job numbers the log of request p reports
Reported(p) ==
  {op[p].response.v[i][3] : i \in LinesOf(p, <<"Got", "job">>)} \cap JobNumbers

\* C30: for a log with the start of the Spark UI reported once, with its url,
\* the result has one entry for each job number the log reports, however
\* often it reports it, and nothing else: the entry of number n is named n
\* and links to <url>/jobs/job/?id=<n>.
C30_OneEntryPerJob ==
  \A p \in Procs :
    (/\ Extracted(p)
     /\ Cardinality(LinesOf(p, <<"Started", "SparkUI", "at">>)) = 1
     /\ \A i \in LinesOf(p, <<"Started", "SparkUI", "at">>) :
          op[p].response.v[i][4] \in Urls) =>
      LET url == op[p].response.v[CHOOSE i \in LinesOf(p, <<"Started", "SparkUI", "at">>) : TRUE][4]
          jobs == out[p].ret.v
      IN /\ out[p].exc = None
         /\ Len(jobs) = Cardinality(Reported(p))
         /\ {jobs[i] : i \in DOMAIN jobs} =
              {[name |-> n, url |-> url \o "/jobs/job/?id=" \o n] : n \in Reported(p)}

\* job 1 reported twice and job 2 once
C30_Witness ==
  \E p \in Procs :
    /\ Extracted(p)
    /\ op[p].response.v = << <<"Started", "SparkUI", "at", "http://h1:4040">>,
                             <<"Got", "job", "1">>, <<"Got", "job", "1">> >>
    /\ out[p].ret = PyList(<< [name |-> "1", url |-> "http://h1:4040/jobs/job/?id=1"] >>)

(* ------------------------- the sweep: frame --------------------------- *)

\* C31: a sweep that runs on its own never changes the store: every close
\* it issues is for an id other than the stored one, and no step of the
\* sweep, whatever the remote close calls answer, changes a stored record.
C31_SweepKeepsStore ==
  /\ [](\A p \in Procs :
         (InSweep(p) /\ pc[p] = "cl_close") =>
           (StoredOf(p) # None /\ cl[p].session.id # StoredOf(p).id))
  /\ [][\A p \in Procs : (InSweep(p) /\ pc'[p] # pc[p]) => store' = store]_vars

\* a sweep has ended after a close that failed, the record still stored
C31_Witness ==
  \E p \in Procs :
    /\ req[p].op = "fetch_result"
    /\ pc[p] = "sw_exit"
    /\ CloseFailed(p)
    /\ StoredOf(p) # None
    /\ gh[p].closes # {}

(* ---------------------- create_session: failure ----------------------- *)

\* request p is inside create_session
InCreate(p) == pc[p] \in {"cs_get_stored", "cs_check", "cs_create", "cs_first_get", "cs_loop"}

\* C32: a create_session that raises leaves the store as it was before the
\* call: the only step of create_session that changes the store is the one
\* that ends it with the new record as its result, and that step writes the
\* record of the new session under the key of the request; so after a call
\* that raised, the store does not hold the id the remote create had issued.
C32_FailedCreateKeepsStore ==
  /\ [][\A p \in Procs :
          (InCreate(p) /\ store' # store) =>
            /\ pc[p] = "cs_loop" /\ pc'[p] = "cs_exit"
            /\ out'[p].exc = None
            /\ cs[p].status.state = "idle"
            /\ store' = [store EXCEPT
                 ![req[p].user][get_session_key(req[p].user, req[p].interpreter)] =
                   out'[p].ret]]_vars
  /\ [](\A p \in Procs :
         (/\ req[p].op = "create_session"
          /\ pc[p] \in {"cs_exit", "done"}
          /\ out[p].exc # None
          /\ cs[p].id # 0) => ~Holds(p, cs[p].id))

\* the new session ended in a state other than idle while a record of an
\* earlier session was stored
C32_Witness ==
  \E p \in Procs :
    /\ req[p].op = "create_session" /\ pc[p] = "done"
    /\ out[p].exc # None /\ out[p].exc.type = "QueryError"
    /\ cs[p].id = 2
    /\ Holds(p, 1)

(* ------------------- the health-checked operations -------------------- *)

HealthChecked == {"check_status", "fetch_result", "cancel", "get_log"}

\* C33: check_status, fetch_result, cancel and get_log create no remote
\* session and write no record (they can only remove one); their remote
\* statement, cancel or log call is made for a session that passed a liveness
\* check of this operation; and when no session passed one, the operation
\* ends with the 'Session expired' error, no such call having been made.
C33_HealthCheckedCreateNothing ==
  /\ [][\A p \in Procs :
          (req[p].op \in HealthChecked /\ pc[p] \notin {"idle", "done"}) =>
            /\ remote' = remote
            /\ \A u \in Users : \A k \in KeysOf(u) :
                 store'[u][k] \in {store[u][k], None}]_vars
  /\ [](\A p \in Procs :
         req[p].op \in HealthChecked =>
           /\ pc[p] \in {"st_fetch", "fr_fetch", "ca_cancel", "gl_log"} =>
                (out[p].ret # None /\ out[p].ret.id \in gh[p].okIds)
           /\ (pc[p] \notin {"idle", "hc_check", "hc_get_stored", "hc_check_stored"}
                 /\ gh[p].okIds = {}) =>
                (/\ pc[p] \in {"hc_exit", "done"}
                 /\ out[p] = [ret |-> None, exc |-> PopupException]
                 /\ gh[p].answer = None))

\* cancel found the stored session unusable
C33_Witness ==
  \E p \in Procs :
    /\ req[p].op = "cancel" /\ pc[p] = "done"
    /\ out[p].exc = PopupException
    /\ gh[p].okIds = {}
    /\ StoredOf(p) # None

(* --------------- the sweep and the other interpreters ----------------- *)

\* the record of the user of request p under the key of interpreter i
StoredFor(p, i) == store[req[p].user][get_session_key(req[p].user, i)]

\* C34: a reap sweep run for (user, interpreter A) never closes the remote
\* session that is stored for the same user under the key of a different
\* interpreter B: when a step of the sweep issues api.close for a session, no
\* other interpreter's record of the user holds that session's id.
C34_SweepSparesOtherInterpreters ==
  [][\A p \in Procs :
       (InSweep(p) /\ pc[p] = "cl_close" /\ pc'[p] = "cl_finally") =>
         \A i \in Interpreters \ {req[p].interpreter} :
           StoredFor(p, i) = None \/ StoredFor(p, i).id # cl[p].session.id]_vars

(* ------------------- a create and a sweep interleave ------------------- *)

\* two requests of the user for the same interpreter run at the same time:
\* the one calls create_session, while the service has room for a session
\* more, the other fetch_result (with its reap sweep) once; the statements of the two interleave freely
NextSweepRace ==
  \E p \in Procs :
    \/ /\ p \in SeqProcs
       /\ \/ Len(remote) < MaxSessions - 1 /\ StartCreateSession(p, {MainInterpreter})
          \/ create_session(p) /\ StartsWithin(p)
    \/ /\ p \notin SeqProcs
       /\ \/ pc[p] = "idle" /\ StartFetchResult(p, {MainInterpreter}) /\ ~op'[p].start_over
          \/ handle_session_health_check(p)
          \/ fetch_result(p) /\ TextFetched(p)
          \/ close_unused_sessions(p)
          \/ close_session(p)
    \/ Exit(p)

SpecSweepRace == Init /\ [][NextSweepRace]_vars

\* C35: under every interleaving of a create_session call and a reap sweep
\* of the same user, the sweep never closes the session the create call then
\* persists: in no reachable state does the store hold an id for which a
\* sweep has issued api.close.
C35_SweepSparesTheCreated ==
  \A u \in Users : \A k \in KeysOf(u) :
    store[u][k] # None =>
      \A q \in Procs :
        req[q].op = "fetch_result" => store[u][k].id \notin gh[q].closes

(* ----------------------- close_session, no id -------------------------- *)

\* request p runs close_session for a session whose id is None
ClosesNoId(p) ==
  /\ req[p].op = "close_session"
  /\ pc[p] \in {"cl_close", "cl_finally", "cl_remove", "cl_exit", "done"}
  /\ cl[p].session # None
  /\ cl[p].session.id = 0

\* C36: close_session on a session whose id is None returns status -1; it
\* issues no api.close, it does not read the store (the finally block is not
\* entered) and it leaves the store as it was.
C36_NullIdCloseIsInert ==
  /\ [][\A p \in Procs :
          (ClosesNoId(p) /\ pc'[p] # pc[p] /\ pc[p] # "done") =>
            /\ store' = store
            /\ remote' = remote
            /\ gh'[p].closes = gh[p].closes
            /\ cl'[p] = cl[p]
            /\ pc'[p] \in {"cl_exit", "done"}]_vars
  /\ [](\A p \in Procs :
         (ClosesNoId(p) /\ pc[p] \in {"cl_exit", "done"}) =>
           /\ out[p] = [ret |-> [status |-> -1], exc |-> None]
           /\ gh[p].closes = {}
           /\ cl[p].resp = None
           /\ cl[p].stored = None)

\* the call has returned while the store holds a record
C36_Witness ==
  \E p \in Procs :
    /\ ClosesNoId(p) /\ pc[p] = "done"
    /\ out[p].ret = [status |-> -1]
    /\ StoredOf(p) # None
====
